---------------------------- MODULE Spec2Model ----------------------------
(***************************************************************************)
(* QortexVectorStore (src/src/index.ts): a LangChain VectorStore adapter   *)
(* over the remote qortex service.  Every public method is modelled as an  *)
(* invocation step (the synchronous code up to its first await) followed   *)
(* by one step per awaited answer (the continuation after the await).      *)
(* The remote service, the transport and the embedding provider are the    *)
(* environment: their answers are chosen nondeterministically.             *)
(***************************************************************************)
EXTENDS Integers, Sequences, FiniteSets, TLC

(***************************************************************************)
(* JavaScript / JSON values.  Every value that can be absent is tagged, so *)
(* that undefined, null, "" and [] stay distinct.                          *)
(***************************************************************************)
Undefined == [t |-> "undefined"]

Null == [t |-> "null"]

Str(s) == [t |-> "string", v |-> s]

Num(n) == [t |-> "number", v |-> n]

Bool(b) == [t |-> "boolean", v |-> b]

Arr(l) == [t |-> "array", v |-> l]

Obj(f) == [t |-> "object", v |-> f]

\* new Error(message) raised by the adapter itself.
NewError(message) == [t |-> "error", origin |-> "adapter", message |-> message]

\* An error object the transport layer rejects a call with.
TransportError(message) == [t |-> "error", origin |-> "transport", message |-> message]

\* ToBoolean: what `if (x)`, `!x` and filter(Boolean) test.
Truthy(x) ==
  CASE x.t = "undefined" -> FALSE
    [] x.t = "null"      -> FALSE
    [] x.t = "string"    -> x.v # ""
    [] x.t = "number"    -> x.v # 0
    [] x.t = "boolean"   -> x.v
    [] OTHER             -> TRUE

\* x ?? d
Coalesce(x, d) == IF x.t \in {"undefined", "null"} THEN d ELSE x

\* The own properties an object spread {...x} copies: none for undefined/null.
Props(x) == IF x.t = "object" THEN x.v ELSE <<>>

\* {...a, ...b}: the keys of both, b's value winning on a shared key.
Spread(a, b) ==
  [key \in (DOMAIN a) \cup (DOMAIN b) |-> IF key \in DOMAIN b THEN b[key] ELSE a[key]]

\* const {drop, ...rest} = a
Rest(a, drop) == [key \in (DOMAIN a) \ {drop} |-> a[key]]

\* a[key] of a plain object: undefined when the key is absent.
Get(a, key) == IF key \in DOMAIN a THEN a[key] ELSE Undefined

\* array.map(f)
Map(s, F(_)) == [i \in 1..Len(s) |-> F(s[i])]

\* Sequences over S of length at most n.
SeqUpTo(S, n) == UNION {[1..m -> S] : m \in 0..n}

(***************************************************************************)
(* Bounds of the model.                                                    *)
(***************************************************************************)
MaxInFlight == 2

MaxDocs == 2

MaxItems == 2

MaxRules == 2

(***************************************************************************)
(* State.                                                                  *)
(*   config        the QortexVectorStoreConfig the store was built with    *)
(*   lastQueryId   QortexVectorStore._lastQueryId                          *)
(*   calls         one record per caller slot: the invocation running in   *)
(*                 it (op, st), its arguments (in), the embedding calls    *)
(*                 (embeds) and remote calls (sent) it has issued, the     *)
(*                 decoded response it received (resp) and what it         *)
(*                 returned or threw (out)                                 *)
(*   searched      history: a text-level search has been invoked           *)
(*   lastTextQid   history: the query_id field of the response to the text *)
(*                 search whose response was processed last                 *)
(*   connected     the connection of the store's client has been           *)
(*                 established (QortexMcpClient.connect)                   *)
(*   newestSearch  history: the slot of the text search that was invoked    *)
(*                 last, and the query_id field of its response once that   *)
(*                 has been processed                                       *)
(***************************************************************************)
VARIABLES config, lastQueryId, calls, connected, searched, lastTextQid, newestSearch

vars == <<config, lastQueryId, calls, connected, searched, lastTextQid, newestSearch>>

Slots == 1..MaxInFlight

\* No text-search response has been processed yet.
NoResponse == [t |-> "none"]

\* The configurations a store is constructed with: {} and an explicit one.
Configs ==
  { [indexName |-> Undefined, domain |-> Undefined, feedbackSource |-> Undefined],
    [indexName |-> Str("test-index"), domain |-> Str("security"),
     feedbackSource |-> Str("app")] }

\* The fields the constructor derives from the configuration.
IndexName == Coalesce(config.indexName, Str("default"))

Domain == Coalesce(config.domain, Str("default"))

FeedbackSource == Coalesce(config.feedbackSource, Str("langchain"))

Idle ==
  [op |-> "none", st |-> "idle", in |-> <<>>, embeds |-> <<>>, sent |-> <<>>,
   resp |-> Undefined, out |-> Undefined, ghost |-> <<>>,
   rejected |-> Undefined]

\* A caller slot in which a new invocation can start.
Free(c) == calls[c].st = "idle"

\* The invocation in slot c waits for the answer to its remote call.
AwaitsCall(c) == calls[c].st = "awaitCall"

\* The promise of the invocation in slot c has settled.
Settled(c) == calls[c].st \in {"returned", "threw"}

\* The caller awaits each operation before it starts the next one.
NonePending == \A c \in Slots : Free(c)

\* mcp.callTool(name, arguments): the one remote call of an invocation.
CallTool(name, arguments) == <<[name |-> name, arguments |-> arguments]>>

\* Mutant: a call that is issued a second time.
AwaitingRetried(op, in, sent, ghost) ==
  [op |-> op, st |-> "awaitCall", in |-> in, embeds |-> <<>>, sent |-> sent \o sent,
   resp |-> Undefined, out |-> Undefined, ghost |-> ghost,
   rejected |-> Undefined]

\* An invocation that has reached `await this.mcp.callTool(...)`.
Awaiting(op, in, sent, ghost) ==
  [op |-> op, st |-> "awaitCall", in |-> in, embeds |-> <<>>, sent |-> sent,
   resp |-> Undefined, out |-> Undefined, ghost |-> ghost,
   rejected |-> Undefined]

Init ==
  /\ config \in Configs
  /\ lastQueryId = Null
  /\ calls = [c \in Slots |-> Idle]
  /\ connected = FALSE
  /\ searched = FALSE
  /\ lastTextQid = NoResponse
  /\ newestSearch = [slot |-> 0, qid |-> NoResponse]


(***************************************************************************)
(* Text-level search: similaritySearch / similaritySearchWithScore.        *)
(***************************************************************************)
TextOps == {"similaritySearch", "similaritySearchWithScore"}

\* The (query, k, filter) arguments the caller searches with; k and filter may be omitted.
TextArgs ==
  { [query |-> Str("authentication"), k |-> Undefined, filter |-> Undefined],
    [query |-> Str("authentication"), k |-> Num(2), filter |-> Obj(<<>>)],
    [query |-> Str("tokens"), k |-> Num(2),
     filter |-> Obj([domains |-> Arr(<<Str("infra")>>)])],
    [query |-> Str("tokens"), k |-> Undefined,
     filter |-> Obj([domains |-> Arr(<<Str("infra"), Str("security")>>),
                     min_confidence |-> Num(50)])],
    [query |-> Str("authentication"), k |-> Num(2),
     filter |-> Obj([domains |-> Arr(<<>>), min_confidence |-> Str("high")])] }

\* A default parameter value (k: number = 4) applies when the argument is undefined.
DefaultArg(x, d) == IF x = Undefined THEN d ELSE x

\* Mutant: an empty domain list of the filter is replaced by the default domain.
QueryPayloadEmptyDomainsDefault(query, k, filter) ==
  LET fdomains == Get(Props(filter), "domains")
      fmin     == Get(Props(filter), "min_confidence")
  IN  [context        |-> query,
       domains        |-> IF fdomains.t = "array" /\ Len(fdomains.v) > 0
                            THEN fdomains ELSE Arr(<<Domain>>),
       top_k          |-> DefaultArg(k, Num(4)),
       min_confidence |-> IF fmin.t = "number" THEN fmin ELSE Num(0),
       mode           |-> Str("auto")]

\* The arguments of the 'qortex_query' call.
QueryPayload(query, k, filter) ==
  LET fdomains == Get(Props(filter), "domains")
      fmin     == Get(Props(filter), "min_confidence")
  IN  [context        |-> query,
       domains        |-> IF Truthy(fdomains) THEN fdomains ELSE Arr(<<Domain>>),
       top_k          |-> DefaultArg(k, Num(4)),
       min_confidence |-> IF fmin.t = "number" THEN fmin ELSE Num(0),
       mode           |-> Str("auto")]

\* Result items of the service (QortexQueryItem); metadata is an open mapping.
Item(id, content, score, node, metadata) ==
  [id |-> Str(id), content |-> Str(content), score |-> Num(score),
   domain |-> Str("security"), node_id |-> Str(node), metadata |-> metadata]

QueryItems ==
  { Item("i-1", "OAuth2 framework", 94, "n1", Undefined),
    Item("i-2", "JWT validation", 85, "n2", Obj([rules |-> Str("svc"), source |-> Str("kb")])),
    Item("i-3", "Rate limiting", 70, "n3", Obj([score |-> Num(1), node_id |-> Str("n1")])) }

\* Rules of the service (QortexRule).
Rule(id, text, relevance, concepts) ==
  [id |-> Str(id), text |-> Str(text), domain |-> Str("security"),
   category |-> Str("architectural"), confidence |-> Num(100),
   relevance |-> Num(relevance), derivation |-> Str("explicit"),
   source_concepts |-> concepts, metadata |-> Obj(<<>>)]

QueryRules ==
  { Rule("rule:1", "Use OAuth2", 94, Arr(<<Str("n1")>>)),
    Rule("rule:2", "Validate tokens", 80, Arr(<<Str("n2"), Str("n1")>>)),
    Rule("rule:3", "Log everything", 10, Undefined) }

QueryIds == {Undefined, Null, Str(""), Str("q-1"), Str("q-2")}

ServiceErrors == {Str("Index not found")}

\* The decoded responses to 'qortex_query' (QortexQueryResult).
QueryResults ==
  [items    : {Undefined} \cup {Arr(s) : s \in SeqUpTo(QueryItems, MaxItems)},
   query_id : {Undefined, Str("q-1")},
   rules    : {Undefined} \cup {Arr(s) : s \in SeqUpTo(QueryRules, MaxRules)},
   error    : {Undefined}]
  \cup
  [items    : {Undefined, Arr(<<>>)},
   query_id : QueryIds,
   rules    : {Undefined, Arr(<<>>)},
   error    : {Undefined}]
  \cup
  [items    : {Undefined, Arr(<<>>)},
   query_id : {Undefined, Str("q-1")},
   rules    : {Undefined},
   error    : ServiceErrors]

\* Mutant: `result.query_id || null`, which stores null for an empty identifier.
NewLastQueryIdOrNull(result) ==
  IF Truthy(result.query_id) THEN result.query_id ELSE Null

\* Mutant: the identifier is stored only when the response carries one.
NewLastQueryIdKeepsOld(result) ==
  IF Truthy(result.query_id) THEN result.query_id ELSE lastQueryId

\* this._lastQueryId = result.query_id ?? null
NewLastQueryId(result) == Coalesce(result.query_id, Null)

\* r.source_concepts?.includes(nodeId)
Includes(concepts, nodeId) ==
  /\ concepts.t = "array"
  /\ \E i \in 1..Len(concepts.v) : concepts.v[i] = nodeId

\* Mutant: rules are matched on the item's id instead of its graph node id.
LinkedRulesByItemId(result, item) ==
  Map(SelectSeq(result.rules.v, LAMBDA r : Includes(r.source_concepts, item.id)),
      LAMBDA r : Obj([id |-> r.id, text |-> r.text, relevance |-> r.relevance]))

\* The rules of the response linked to an item, reduced to {id, text, relevance}.
LinkedRules(result, item) ==
  Map(SelectSeq(result.rules.v, LAMBDA r : Includes(r.source_concepts, item.node_id)),
      LAMBDA r : Obj([id |-> r.id, text |-> r.text, relevance |-> r.relevance]))

\* Mutant: the item's own fields are written after its metadata and overwrite it.
TextMetaFieldsLast(result, item) ==
  LET meta == Spread(Props(item.metadata),
                     [score |-> item.score, domain |-> item.domain,
                      node_id |-> item.node_id])
  IN  IF result.rules.t = "array" /\ Len(result.rules.v) > 0
        THEN IF Len(LinkedRules(result, item)) > 0
               THEN Spread(meta, [rules |-> Arr(LinkedRules(result, item))])
               ELSE meta
        ELSE meta

\* The metadata of the document built for an item of a text-search response.
TextMeta(result, item) ==
  LET meta == Spread([score |-> item.score, domain |-> item.domain,
                      node_id |-> item.node_id],
                     Props(item.metadata))
  IN  IF result.rules.t = "array" /\ Len(result.rules.v) > 0
        THEN IF Len(LinkedRules(result, item)) > 0
               THEN Spread(meta, [rules |-> Arr(LinkedRules(result, item))])
               ELSE meta
        ELSE meta

\* new Document({pageContent, metadata, id})
Document(pageContent, metadata, id) ==
  [pageContent |-> pageContent, metadata |-> metadata, id |-> id]

\* (result.items ?? []).map(item => [doc, item.score])
ScoredDocs(result) ==
  Map(Coalesce(result.items, Arr(<<>>)).v,
      LAMBDA item : <<Document(item.content, TextMeta(result, item), item.id),
                      item.score>>)

\* Mutant: similaritySearch hands on the pairs without discarding the scores.
TextSearchValueKeepsScores(op, result) == Arr(ScoredDocs(result))

\* What the invocation returns: the pairs, or for similaritySearch the documents.
TextSearchValue(op, result) ==
  IF op = "similaritySearch"
    THEN Arr(Map(ScoredDocs(result), LAMBDA pair : pair[1]))
    ELSE Arr(ScoredDocs(result))

\* Mutant: a search that forgets the stored query identifier when it starts.
TextSearchInvokeResets(c, op, a) ==
  /\ Free(c)
  /\ calls' = [calls EXCEPT ![c] =
       Awaiting(op, a, CallTool("qortex_query", QueryPayload(a.query, a.k, a.filter)),
                <<>>)]
  /\ searched' = TRUE
  /\ newestSearch' = [slot |-> c, qid |-> NoResponse]
  /\ lastQueryId' = Null
  /\ UNCHANGED <<config, lastTextQid, connected>>

\* similaritySearch / similaritySearchWithScore up to `await callTool("qortex_query")`.
TextSearchInvoke(c, op, a) ==
  /\ Free(c)
  /\ calls' = [calls EXCEPT ![c] =
       Awaiting(op, a, CallTool("qortex_query", QueryPayload(a.query, a.k, a.filter)),
                <<>>)]
  /\ searched' = TRUE
  /\ newestSearch' = [slot |-> c, qid |-> NoResponse]
  /\ UNCHANGED <<config, lastQueryId, lastTextQid, connected>>

\* Mutant: a store whose feedback payloads read the stored identifier when they
\* are sent off, after the search's continuation has run.
TextSearchResolveRetags(c, result) ==
  /\ calls[c].st = "awaitCall"
  /\ calls[c].op \in TextOps
  /\ lastQueryId' = NewLastQueryId(result)
  /\ calls' = [d \in Slots |->
       IF d = c
         THEN [calls[c] EXCEPT !.st = "returned", !.resp = result,
                               !.out = TextSearchValue(calls[c].op, result)]
         ELSE IF calls[d].op = "feedback" /\ calls[d].st = "awaitCall"
                THEN [calls[d] EXCEPT
                        !.sent[1].arguments.query_id = NewLastQueryId(result)]
                ELSE calls[d]]
  /\ lastTextQid' = result.query_id
  /\ newestSearch' = IF newestSearch.slot = c
                       THEN [newestSearch EXCEPT !.qid = result.query_id]
                       ELSE newestSearch
  /\ UNCHANGED <<config, searched, connected>>

\* Mutant: a guarded write, which only the search invoked last may perform.
TextSearchResolveGuarded(c, result) ==
  /\ calls[c].st = "awaitCall"
  /\ calls[c].op \in TextOps
  /\ lastQueryId' = IF newestSearch.slot = c THEN NewLastQueryId(result) ELSE lastQueryId
  /\ calls' = [calls EXCEPT ![c].st = "returned", ![c].resp = result,
                            ![c].out = TextSearchValue(calls[c].op, result)]
  /\ lastTextQid' = result.query_id
  /\ newestSearch' = IF newestSearch.slot = c
                       THEN [newestSearch EXCEPT !.qid = result.query_id]
                       ELSE newestSearch
  /\ UNCHANGED <<config, searched, connected>>

\* The continuation once 'qortex_query' has answered with result.
TextSearchResolve(c, result) ==
  /\ calls[c].st = "awaitCall"
  /\ calls[c].op \in TextOps
  /\ lastQueryId' = NewLastQueryId(result)
  /\ calls' = [calls EXCEPT ![c].st = "returned", ![c].resp = result,
                            ![c].out = TextSearchValue(calls[c].op, result)]
  /\ lastTextQid' = result.query_id
  /\ newestSearch' = IF newestSearch.slot = c
                       THEN [newestSearch EXCEPT !.qid = result.query_id]
                       ELSE newestSearch
  /\ UNCHANGED <<config, searched, connected>>

(***************************************************************************)
(* feedback(outcomes).                                                     *)
(***************************************************************************)
Outcomes ==
  { Obj(<<>>),
    Obj(("i-1" :> Str("accepted"))),
    Obj(("i-1" :> Str("accepted")) @@ ("i-2" :> Str("rejected"))) }

\* The acknowledgments of the service (FeedbackResult).
FeedbackResults ==
  [status : {Str("recorded"), Str("unknown_query")}, query_id : {Str("q-1")},
   outcome_count : {Num(1)}, source : {Str("langchain")}]

\* Mutant: the source label is hard-coded instead of read from the configuration.
FeedbackPayloadFixedSource(outcomes) ==
  [query_id |-> lastQueryId, outcomes |-> outcomes, source |-> Str("langchain")]

\* The arguments of the 'qortex_feedback' call.
FeedbackPayload(outcomes) ==
  [query_id |-> lastQueryId, outcomes |-> outcomes, source |-> FeedbackSource]

\* What feedback saw when it was invoked (history, for the properties only).
FeedbackGhost ==
  [searched |-> searched, priorQid |-> lastTextQid, lastQueryId |-> lastQueryId,
   newest |-> newestSearch]

\* Mutant: feedback without its guard on the stored query identifier.
FeedbackInvokeUnguarded(c, outcomes) ==
  /\ Free(c)
  /\ calls' = [calls EXCEPT ![c] =
       Awaiting("feedback", [outcomes |-> outcomes],
                CallTool("qortex_feedback", FeedbackPayload(outcomes)), FeedbackGhost)]
  /\ UNCHANGED <<config, lastQueryId, searched, lastTextQid, newestSearch, connected>>

\* feedback up to its return of null or to `await callTool("qortex_feedback")`.
FeedbackInvoke(c, outcomes) ==
  /\ Free(c)
  /\ calls' = [calls EXCEPT ![c] =
       IF ~Truthy(lastQueryId)
         THEN [op |-> "feedback", st |-> "returned", in |-> [outcomes |-> outcomes],
               embeds |-> <<>>, sent |-> <<>>, resp |-> Undefined, out |-> Null,
               ghost |-> FeedbackGhost,
   rejected |-> Undefined]
         ELSE Awaiting("feedback", [outcomes |-> outcomes],
                       CallTool("qortex_feedback", FeedbackPayload(outcomes)),
                       FeedbackGhost)]
  /\ UNCHANGED <<config, lastQueryId, searched, lastTextQid, newestSearch, connected>>

\* Mutant: a feedback that consumes the stored query identifier.
FeedbackResolveClears(c, result) ==
  /\ calls[c].st = "awaitCall"
  /\ calls[c].op = "feedback"
  /\ lastQueryId' = Null
  /\ calls' = [calls EXCEPT ![c].st = "returned", ![c].resp = result,
                            ![c].out = result]
  /\ UNCHANGED <<config, searched, lastTextQid, newestSearch, connected>>

\* The continuation once 'qortex_feedback' has answered with result.
FeedbackResolve(c, result) ==
  /\ calls[c].st = "awaitCall"
  /\ calls[c].op = "feedback"
  /\ calls' = [calls EXCEPT ![c].st = "returned", ![c].resp = result,
                            ![c].out = result]
  /\ UNCHANGED <<config, lastQueryId, searched, lastTextQid, newestSearch, connected>>

(***************************************************************************)
(* addVectors(vectors, documents, options) and addDocuments(documents,     *)
(* options).                                                               *)
(***************************************************************************)
AddOps == {"addVectors", "addDocuments"}

\* Documents the caller inserts: with and without an id of their own, and one
\* whose metadata has a "text" key of its own.
Documents ==
  { Document(Str("OAuth2 auth"), [source |-> Str("docs")], Undefined),
    Document(Str("JWT tokens"), [text |-> Str("shadow"), page |-> Num(3)], Str("d1")),
    Document(Str("Rate limiting"), <<>>, Str("")) }

DocumentLists == SeqUpTo(Documents, MaxDocs)

IdNames == <<"v1", "v2", "v3", "v4">>

\* Identifier lists: v1..vn, and the same in reverse order.
IdLists ==
  {Arr([i \in 1..n |-> Str(IdNames[i])]) : n \in 0..MaxDocs}
  \cup {Arr([i \in 1..n |-> Str(IdNames[n + 1 - i])]) : n \in 2..MaxDocs}

\* The options argument: omitted, without ids, or with explicit ids.
AddOptions == {Undefined, Obj(<<>>)} \cup {Obj([ids |-> ids]) : ids \in IdLists}

Vector(x, y) == Arr(<<Num(x), Num(y)>>)

VectorLists == {Arr(<<Vector(1, 0)>>), Arr(<<Vector(0, 1), Vector(1, 0)>>)}

\* Mutant: the content is written after the metadata and overwrites its "text" key.
UpsertMetadataTextLast(documents) ==
  Arr(Map(documents, LAMBDA doc : Obj(Spread(doc.metadata, [text |-> doc.pageContent]))))

\* documents.map(doc => ({text: doc.pageContent, ...doc.metadata}))
UpsertMetadata(documents) ==
  Arr(Map(documents, LAMBDA doc : Obj(Spread([text |-> doc.pageContent], doc.metadata))))

\* Mutant: the explicit identifiers are ignored in favour of the documents' own.
UpsertIdsFromDocuments(documents, options) ==
  LET ids == Arr(SelectSeq(Map(documents, LAMBDA doc : doc.id), Truthy))
  IN  IF Len(ids.v) > 0 THEN ids ELSE Undefined

\* Mutant: an empty identifier list is sent as it is.
UpsertIdsKeepsEmpty(documents, options) ==
  Coalesce(Get(Props(options), "ids"),
           Arr(SelectSeq(Map(documents, LAMBDA doc : doc.id), Truthy)))

\* options?.ids ?? documents.map(doc => doc.id).filter(Boolean), sent as
\* ids.length > 0 ? ids : undefined
UpsertIds(documents, options) ==
  LET ids == Coalesce(Get(Props(options), "ids"),
                      Arr(SelectSeq(Map(documents, LAMBDA doc : doc.id), Truthy)))
  IN  IF Len(ids.v) > 0 THEN ids ELSE Undefined

\* The arguments of the 'qortex_vector_upsert' call.
UpsertPayload(vectors, documents, options) ==
  [index_name |-> IndexName,
   vectors    |-> vectors,
   metadata   |-> UpsertMetadata(documents),
   ids        |-> UpsertIds(documents, options)]

\* The decoded responses to 'qortex_vector_upsert'.
UpsertResults ==
  [ids : {Undefined} \cup IdLists, error : {Undefined}]
  \cup [ids : {Undefined, Arr(<<Str("v1")>>)}, error : {Str("")} \cup ServiceErrors]

\* addVectors up to `await callTool("qortex_vector_upsert")`.
AddVectorsInvoke(c, vectors, documents, options) ==
  /\ Free(c)
  /\ calls' = [calls EXCEPT ![c] =
       Awaiting("addVectors",
                [vectors |-> vectors, documents |-> documents, options |-> options],
                CallTool("qortex_vector_upsert",
                         UpsertPayload(vectors, documents, options)),
                <<>>)]
  /\ UNCHANGED <<config, lastQueryId, searched, lastTextQid, newestSearch, connected>>

\* Mutant: the response's error field is not looked at.
AddVectorsResolveUnchecked(c, result) ==
  /\ calls[c].st = "awaitCall"
  /\ calls[c].op \in AddOps
  /\ calls' = [calls EXCEPT ![c].st = "returned", ![c].resp = result,
                            ![c].out = result.ids]
  /\ UNCHANGED <<config, lastQueryId, searched, lastTextQid, newestSearch, connected>>

\* The continuation of addVectors once 'qortex_vector_upsert' has answered.
AddVectorsResolve(c, result) ==
  /\ calls[c].st = "awaitCall"
  /\ calls[c].op \in AddOps
  /\ calls' = [calls EXCEPT
       ![c].st   = IF Truthy(result.error) THEN "threw" ELSE "returned",
       ![c].resp = result,
       ![c].out  = IF Truthy(result.error) THEN NewError(result.error.v) ELSE result.ids]
  /\ UNCHANGED <<config, lastQueryId, searched, lastTextQid, newestSearch, connected>>

\* documents.map(doc => doc.pageContent)
Texts(documents) == Map(documents, LAMBDA doc : doc.pageContent)

\* What the embedding provider returns for texts: one vector per text.
EmbedResults(texts) == {Arr([i \in 1..Len(texts) |-> Vector(i, 0)])}

AllEmbedResults == UNION {EmbedResults(Texts(d)) : d \in DocumentLists}

EmbedErrors == {[t |-> "error", origin |-> "embeddings", message |-> "embedding failed"]}

\* addDocuments up to `await this.embeddings.embedDocuments(texts)`.
AddDocumentsInvoke(c, documents, options) ==
  /\ Free(c)
  /\ calls' = [calls EXCEPT ![c] =
       [op |-> "addDocuments", st |-> "awaitEmbed",
        in |-> [documents |-> documents, options |-> options],
        embeds |-> <<Arr(Texts(documents))>>, sent |-> <<>>, resp |-> Undefined,
        out |-> Undefined, ghost |-> <<>>,
   rejected |-> Undefined]]
  /\ UNCHANGED <<config, lastQueryId, searched, lastTextQid, newestSearch, connected>>

\* Mutant: the options are not handed on to addVectors.
AddDocumentsEmbeddedDropsOptions(c, vectors) ==
  /\ calls[c].st = "awaitEmbed"
  /\ vectors \in EmbedResults(calls[c].embeds[1].v)
  /\ calls' = [calls EXCEPT
       ![c].st    = "awaitCall",
       ![c].ghost = [vectors |-> vectors],
       ![c].sent  = CallTool("qortex_vector_upsert",
                             UpsertPayload(vectors, calls[c].in.documents, Undefined))]
  /\ UNCHANGED <<config, lastQueryId, searched, lastTextQid, newestSearch, connected>>

\* Mutant: an addDocuments that, with the embeddings in hand, waits for an event
\* that neither the embedding provider nor the transport delivers.
AddDocumentsEmbeddedWaits(c, vectors) ==
  /\ calls[c].st = "awaitEmbed"
  /\ vectors \in EmbedResults(calls[c].embeds[1].v)
  /\ calls' = [calls EXCEPT ![c].st = "awaitFlush", ![c].ghost = [vectors |-> vectors]]
  /\ UNCHANGED <<config, lastQueryId, searched, lastTextQid, newestSearch, connected>>

\* The continuation once the embeddings have arrived: addVectors(vectors, documents, options).
AddDocumentsEmbedded(c, vectors) ==
  /\ calls[c].st = "awaitEmbed"
  /\ vectors \in EmbedResults(calls[c].embeds[1].v)
  /\ calls' = [calls EXCEPT
       ![c].st    = "awaitCall",
       ![c].ghost = [vectors |-> vectors],
       ![c].sent  = CallTool("qortex_vector_upsert",
                             UpsertPayload(vectors, calls[c].in.documents,
                                           calls[c].in.options))]
  /\ UNCHANGED <<config, lastQueryId, searched, lastTextQid, newestSearch, connected>>

\* The embedding provider fails: addDocuments rejects with its error.
EmbedRejects(c, e) ==
  /\ calls[c].st = "awaitEmbed"
  /\ calls' = [calls EXCEPT ![c].st = "threw", ![c].out = e]
  /\ UNCHANGED <<config, lastQueryId, searched, lastTextQid, newestSearch, connected>>

(***************************************************************************)
(* similaritySearchVectorWithScore(query, k, filter).                      *)
(***************************************************************************)
VectorArgs ==
  { [query |-> Vector(1, 0), k |-> Num(2), filter |-> Undefined],
    [query |-> Vector(0, 1), k |-> Num(5), filter |-> Obj([source |-> Str("handbook")])],
    [query |-> Vector(1, 0), k |-> Num(5), filter |-> Null] }

\* The arguments of the 'qortex_vector_query' call.
VectorQueryPayload(query, k, filter) ==
  [index_name     |-> IndexName,
   query_vector   |-> query,
   top_k          |-> k,
   filter         |-> Coalesce(filter, Undefined),
   include_vector |-> Bool(FALSE)]

\* Result items of 'qortex_vector_query'; metadata is an open mapping and optional.
VectorItems ==
  { [id |-> Str("v1"), score |-> Num(95),
     metadata |-> Obj([text |-> Str("OAuth2 auth"), source |-> Str("docs")])],
    [id |-> Str("v2"), score |-> Num(82),
     metadata |-> Obj([text |-> Str("JWT tokens"), score |-> Num(1)])],
    [id |-> Str("v3"), score |-> Num(50), metadata |-> Undefined],
    [id |-> Str("v4"), score |-> Num(40),
     metadata |-> Obj([text |-> Null, source |-> Str("docs")])] }

\* The decoded responses to 'qortex_vector_query'.
VectorResults ==
  [results : {Undefined} \cup {Arr(s) : s \in SeqUpTo(VectorItems, MaxItems)},
   error   : {Undefined}]
  \cup [results : {Undefined, Arr(<<>>)}, error : {Str("")} \cup ServiceErrors]

\* Mutant: the "text" key is read but left in the metadata.
VectorDocKeepsText(item) ==
  LET md   == Props(Coalesce(item.metadata, Obj(<<>>)))
      text == Get(md, "text")
  IN  Document(Coalesce(text, Str("")), Spread(md, [score |-> item.score]), item.id)

\* The document built for one result item.
VectorDoc(item) ==
  LET md   == Props(Coalesce(item.metadata, Obj(<<>>)))
      text == Get(md, "text")
      meta == Rest(md, "text")
  IN  Document(Coalesce(text, Str("")), Spread(meta, [score |-> item.score]), item.id)

\* Mutant: documents that carry the content and the score, and none of the
\* metadata the service returned.
VectorScoredDocsDropsMeta(result) ==
  Map(Coalesce(result.results, Arr(<<>>)).v,
      LAMBDA item : <<Document(VectorDoc(item).pageContent, [score |-> item.score],
                               item.id),
                      item.score>>)

\* (result.results ?? []).map(item => [doc, item.score])
VectorScoredDocs(result) ==
  Map(Coalesce(result.results, Arr(<<>>)).v,
      LAMBDA item : <<VectorDoc(item), item.score>>)

\* similaritySearchVectorWithScore up to `await callTool("qortex_vector_query")`.
VectorSearchInvoke(c, a) ==
  /\ Free(c)
  /\ calls' = [calls EXCEPT ![c] =
       Awaiting("similaritySearchVectorWithScore", a,
                CallTool("qortex_vector_query",
                         VectorQueryPayload(a.query, a.k, a.filter)),
                <<>>)]
  /\ UNCHANGED <<config, lastQueryId, searched, lastTextQid, newestSearch, connected>>

\* The continuation once 'qortex_vector_query' has answered with result.
VectorSearchResolve(c, result) ==
  /\ calls[c].st = "awaitCall"
  /\ calls[c].op = "similaritySearchVectorWithScore"
  /\ calls' = [calls EXCEPT
       ![c].st   = IF Truthy(result.error) THEN "threw" ELSE "returned",
       ![c].resp = result,
       ![c].out  = IF Truthy(result.error) THEN NewError(result.error.v)
                   ELSE Arr(VectorScoredDocs(result))]
  /\ UNCHANGED <<config, lastQueryId, searched, lastTextQid, newestSearch, connected>>

(***************************************************************************)
(* explore(nodeId, depth).                                                 *)
(***************************************************************************)
\* The (nodeId, depth) arguments the caller explores with; depth may be omitted.
ExploreArgs ==
  { [nodeId |-> Str("sec:oauth"), depth |-> Undefined],
    [nodeId |-> Str("sec:oauth"), depth |-> Num(2)],
    [nodeId |-> Str("nonexistent"), depth |-> Undefined] }

\* The arguments of the 'qortex_explore' call.
ExplorePayload(nodeId, depth) ==
  [node_id |-> nodeId, depth |-> DefaultArg(depth, Num(1))]

\* A graph node of the service (QortexNode).
Node(id, name) ==
  Obj([id |-> Str(id), name |-> Str(name), domain |-> Str("security")])

\* The decoded responses to 'qortex_explore' (ExploreResult): a node with its
\* neighbourhood, node: null for a node that does not exist, or no node field.
ExploreResults ==
  { [node      |-> Node("sec:oauth", "OAuth2"),
     edges     |-> Arr(<<Obj([source_id |-> Str("sec:oauth"), target_id |-> Str("sec:jwt"),
                              relation_type |-> Str("REQUIRES")])>>),
     neighbors |-> Arr(<<Node("sec:jwt", "JWT")>>),
     rules     |-> Arr(<<>>)],
    [node      |-> Node("sec:jwt", "JWT"),
     edges     |-> Arr(<<>>),
     neighbors |-> Arr(<<>>),
     rules     |-> Arr(<<Rule("rule:1", "Use OAuth2", 94, Arr(<<Str("sec:jwt")>>))>>)],
    [node |-> Null, edges |-> Undefined, neighbors |-> Undefined, rules |-> Undefined],
    [node |-> Null, edges |-> Arr(<<>>), neighbors |-> Arr(<<>>), rules |-> Arr(<<>>)],
    [node |-> Undefined, edges |-> Undefined, neighbors |-> Undefined,
     rules |-> Undefined] }

\* explore up to `await callTool("qortex_explore")`.
ExploreInvoke(c, a) ==
  /\ Free(c)
  /\ calls' = [calls EXCEPT ![c] =
       Awaiting("explore", a, CallTool("qortex_explore", ExplorePayload(a.nodeId, a.depth)),
                <<>>)]
  /\ UNCHANGED <<config, lastQueryId, searched, lastTextQid, newestSearch, connected>>

\* Mutant: the response is returned without the test of its node field.
ExploreResolveUnchecked(c, result) ==
  /\ calls[c].st = "awaitCall"
  /\ calls[c].op = "explore"
  /\ calls' = [calls EXCEPT ![c].st = "returned", ![c].resp = result,
                            ![c].out = result]
  /\ UNCHANGED <<config, lastQueryId, searched, lastTextQid, newestSearch, connected>>

\* The continuation once 'qortex_explore' has answered with result.
ExploreResolve(c, result) ==
  /\ calls[c].st = "awaitCall"
  /\ calls[c].op = "explore"
  /\ calls' = [calls EXCEPT ![c].st = "returned", ![c].resp = result,
                            ![c].out = IF result.node = Null THEN Null ELSE result]
  /\ UNCHANGED <<config, lastQueryId, searched, lastTextQid, newestSearch, connected>>

(***************************************************************************)
(* getRules(options).                                                      *)
(***************************************************************************)
\* The options the caller asks for rules with; the argument may be omitted.
RulesOptions ==
  { Undefined,
    Obj([domains |-> Arr(<<Str("security")>>)]),
    Obj([domains |-> Arr(<<Str("security"), Str("infra")>>),
         conceptIds |-> Arr(<<Str("sec:oauth")>>),
         categories |-> Arr(<<Str("architectural")>>),
         includeDerived |-> Bool(FALSE),
         minConfidence |-> Num(50)]),
    Obj([conceptIds |-> Arr(<<>>), includeDerived |-> Bool(TRUE),
         minConfidence |-> Num(0)]) }

\* Mutant: the defaults are applied with || instead of ??.
RulesPayloadOrDefaults(options) ==
  LET o == Props(DefaultArg(options, Obj(<<>>)))
  IN  [domains         |-> Coalesce(Get(o, "domains"), Undefined),
       concept_ids     |-> Coalesce(Get(o, "conceptIds"), Undefined),
       categories      |-> Coalesce(Get(o, "categories"), Undefined),
       include_derived |-> IF Truthy(Get(o, "includeDerived"))
                             THEN Get(o, "includeDerived") ELSE Bool(TRUE),
       min_confidence  |-> IF Truthy(Get(o, "minConfidence"))
                             THEN Get(o, "minConfidence") ELSE Num(0)]

\* The arguments of the 'qortex_rules' call.
RulesPayload(options) ==
  LET o == Props(DefaultArg(options, Obj(<<>>)))
  IN  [domains         |-> Coalesce(Get(o, "domains"), Undefined),
       concept_ids     |-> Coalesce(Get(o, "conceptIds"), Undefined),
       categories      |-> Coalesce(Get(o, "categories"), Undefined),
       include_derived |-> Coalesce(Get(o, "includeDerived"), Bool(TRUE)),
       min_confidence  |-> Coalesce(Get(o, "minConfidence"), Num(0))]

\* The decoded responses to 'qortex_rules' (RulesResult).
RulesResults ==
  { [rules |-> Arr(<<Rule("rule:1", "Use OAuth2", 94, Arr(<<Str("sec:oauth")>>))>>),
     domain_count |-> Num(1), projection |-> Str("rules")],
    [rules |-> Arr(<<Rule("rule:2", "Validate tokens", 80, Undefined),
                     Rule("rule:1", "Use OAuth2", 94, Arr(<<Str("sec:oauth")>>))>>),
     domain_count |-> Num(2), projection |-> Str("rules")],
    [rules |-> Arr(<<>>), domain_count |-> Num(0), projection |-> Str("rules")] }

\* getRules up to `await callTool("qortex_rules")`.
GetRulesInvoke(c, options) ==
  /\ Free(c)
  /\ calls' = [calls EXCEPT ![c] =
       Awaiting("getRules", [options |-> options],
                CallTool("qortex_rules", RulesPayload(options)), <<>>)]
  /\ UNCHANGED <<config, lastQueryId, searched, lastTextQid, newestSearch, connected>>

\* The continuation once 'qortex_rules' has answered with result.
GetRulesResolve(c, result) ==
  /\ calls[c].st = "awaitCall"
  /\ calls[c].op = "getRules"
  /\ calls' = [calls EXCEPT ![c].st = "returned", ![c].resp = result,
                            ![c].out = result]
  /\ UNCHANGED <<config, lastQueryId, searched, lastTextQid, newestSearch, connected>>

(***************************************************************************)
(* The static factories fromTexts(texts, metadatas, embeddings, config)    *)
(* and fromDocuments(docs, embeddings, config).  Each constructs a store   *)
(* of its own, which is the store of the state from then on.               *)
(***************************************************************************)
FactoryOps == {"fromTexts", "fromDocuments"}

\* No store has been constructed yet.
NoStore == [t |-> "nostore"]

\* The texts and the metadatas argument (a list, or one shared object) of fromTexts.
FactoryTexts == SeqUpTo({Str("Hello world"), Str("Goodbye world")}, MaxDocs)

FactoryMetadatas ==
  { Arr(<<Obj([src |-> Str("a")]), Obj([src |-> Str("b"), page |-> Num(2)])>>),
    Arr(<<Obj([src |-> Str("a")])>>),
    Obj([src |-> Str("shared")]),
    Obj(<<>>) }

\* The store a factory returns: the one it constructed.
Store == [t |-> "store", config |-> config]

\* Mutant: every text gets the first metadata of the list.
FromTextsDocumentsFirstMeta(texts, metadatas) ==
  LET metaArray == IF metadatas.t = "array" THEN metadatas.v
                   ELSE [i \in 1..Len(texts) |-> metadatas]
  IN  [i \in 1..Len(texts) |->
         Document(texts[i],
                  Props(IF 1 \in DOMAIN metaArray THEN metaArray[1] ELSE Undefined),
                  Undefined)]

\* The documents fromTexts builds: document i from texts[i] and metaArray[i],
\* where metaArray is the list, or the shared object once per text.  A document
\* built with metadata undefined has the metadata {}.
FromTextsDocuments(texts, metadatas) ==
  LET metaArray == IF metadatas.t = "array" THEN metadatas.v
                   ELSE [i \in 1..Len(texts) |-> metadatas]
  IN  [i \in 1..Len(texts) |->
         Document(texts[i],
                  Props(IF i \in DOMAIN metaArray THEN metaArray[i] ELSE Undefined),
                  Undefined)]

\* A factory that has constructed its store and reached `await store.connect()`.
Connecting(op, in) ==
  [op |-> op, st |-> "awaitConnect", in |-> in, embeds |-> <<>>, sent |-> <<>>,
   resp |-> Undefined, out |-> Undefined, ghost |-> <<>>,
   rejected |-> Undefined]

\* fromTexts up to `await store.connect()`.
FromTextsInvoke(c, texts, metadatas, cfg) ==
  /\ Free(c)
  /\ config' = cfg
  /\ lastQueryId' = Null
  /\ connected' = FALSE
  /\ calls' = [calls EXCEPT ![c] =
       Connecting("fromTexts",
                  [texts |-> texts, metadatas |-> metadatas, config |-> cfg,
                   documents |-> <<>>, options |-> Undefined])]
  /\ UNCHANGED <<searched, lastTextQid, newestSearch>>

\* fromDocuments up to `await store.connect()`.
FromDocumentsInvoke(c, docs, cfg) ==
  /\ Free(c)
  /\ config' = cfg
  /\ lastQueryId' = Null
  /\ connected' = FALSE
  /\ calls' = [calls EXCEPT ![c] =
       Connecting("fromDocuments",
                  [docs |-> docs, config |-> cfg, documents |-> <<>>,
                   options |-> Undefined])]
  /\ UNCHANGED <<searched, lastTextQid, newestSearch>>

\* The documents a connected factory inserts.
FactoryDocuments(c) ==
  IF calls[c].op = "fromTexts"
    THEN FromTextsDocuments(calls[c].in.texts, calls[c].in.metadatas)
    ELSE calls[c].in.docs

\* The connection is established: the factory goes on to store.addDocuments(docs),
\* which runs up to `await this.embeddings.embedDocuments(texts)`.
FactoryConnected(c) ==
  /\ calls[c].st = "awaitConnect"
  /\ calls[c].op \in FactoryOps
  /\ connected' = TRUE
  /\ calls' = [calls EXCEPT
       ![c].st           = "awaitEmbed",
       ![c].in.documents = FactoryDocuments(c),
       ![c].embeds       = <<Arr(Texts(FactoryDocuments(c)))>>]
  /\ UNCHANGED <<config, lastQueryId, searched, lastTextQid, newestSearch>>

\* The connection cannot be established: the factory rejects with that error.
ConnectErrors == {TransportError("spawn failed")}

ConnectRejects(c, e) ==
  /\ calls[c].st = "awaitConnect"
  /\ calls' = [calls EXCEPT ![c].st = "threw", ![c].out = e]
  /\ UNCHANGED <<config, lastQueryId, searched, lastTextQid, newestSearch, connected>>

\* The continuation once the factory's 'qortex_vector_upsert' has answered:
\* addVectors throws on an error response, and otherwise the store is returned.
FactoryResolve(c, result) ==
  /\ calls[c].st = "awaitCall"
  /\ calls[c].op \in FactoryOps
  /\ calls' = [calls EXCEPT
       ![c].st   = IF Truthy(result.error) THEN "threw" ELSE "returned",
       ![c].resp = result,
       ![c].out  = IF Truthy(result.error) THEN NewError(result.error.v) ELSE Store]
  /\ UNCHANGED <<config, lastQueryId, searched, lastTextQid, newestSearch, connected>>

(***************************************************************************)
(* QortexEmbeddings: embedDocuments(texts) and embedQuery(text) over a     *)
(* wrapped model with embed(texts).  The wrapper is an object of its own;  *)
(* its params are held in config.                                          *)
(***************************************************************************)
EmbedOps == {"embedDocuments", "embedQuery"}

EmbedText == {Str("alpha"), Str("beta")}

EmbedTextLists == SeqUpTo(EmbedText, MaxDocs)

\* The wrapped models: one vector per text computed from the text alone, one
\* vector per text computed from its position and the batch size, a model that
\* returns no vectors, and a model whose answer is not determined by its input.
Models == {"byText", "byPosition", "empty", "noisy"}

ByText(texts) ==
  Arr([i \in 1..Len(texts) |-> Vector(IF texts[i] = Str("alpha") THEN 1 ELSE 2, 0)])

ByPosition(texts) == Arr([i \in 1..Len(texts) |-> Vector(i, Len(texts))])

\* What model.embed(texts) may return.
ModelOutputs(model, texts) ==
  CASE model = "byText"     -> {ByText(texts)}
    [] model = "byPosition" -> {ByPosition(texts)}
    [] model = "empty"      -> {Arr(<<>>)}
    [] model = "noisy"      -> {ByText(texts), ByPosition(texts)}

AllModelOutputs ==
  UNION {ModelOutputs(m, t) : m \in Models, t \in EmbedTextLists}

\* An invocation of the wrapper that has reached `await this.model.embed(texts)`.
Embedding(op, in, texts) ==
  [op |-> op, st |-> "awaitEmbed", in |-> in, embeds |-> <<Arr(texts)>>, sent |-> <<>>,
   resp |-> Undefined, out |-> Undefined, ghost |-> <<>>,
   rejected |-> Undefined]

\* embedDocuments up to `await this.model.embed(texts)`.
EmbedDocumentsInvoke(c, texts) ==
  /\ Free(c)
  /\ calls' = [calls EXCEPT ![c] = Embedding("embedDocuments", [texts |-> texts], texts)]
  /\ UNCHANGED <<config, lastQueryId, searched, lastTextQid, newestSearch, connected>>

\* embedQuery up to `await this.model.embed([text])`.
EmbedQueryInvoke(c, text) ==
  /\ Free(c)
  /\ calls' = [calls EXCEPT ![c] = Embedding("embedQuery", [text |-> text], <<text>>)]
  /\ UNCHANGED <<config, lastQueryId, searched, lastTextQid, newestSearch, connected>>

\* Mutant: embedQuery returns the whole result instead of its first vector.
EmbedValueWhole(op, result) == result

\* What the invocation returns: the result, or for embedQuery result[0]
\* (undefined when the result is empty).
EmbedValue(op, result) ==
  IF op = "embedQuery"
    THEN IF Len(result.v) > 0 THEN result.v[1] ELSE Undefined
    ELSE result

\* The continuation once the model has answered with result.
EmbedResolve(c, result) ==
  /\ calls[c].st = "awaitEmbed"
  /\ calls[c].op \in EmbedOps
  /\ result \in ModelOutputs(config.model, calls[c].embeds[1].v)
  /\ calls' = [calls EXCEPT ![c].st = "returned", ![c].resp = result,
                            ![c].out = EmbedValue(calls[c].op, result)]
  /\ UNCHANGED <<config, lastQueryId, searched, lastTextQid, newestSearch, connected>>

(***************************************************************************)
(* The transport fails a remote call: the awaiting invocation rejects with *)
(* the transport's error (no method catches anything).                     *)
(***************************************************************************)
TransportErrors == {TransportError("connection closed")}

\* A store whose methods caught the transport's error and threw their own.
CallToolRejectsWrapped(c, e) ==
  /\ calls[c].st = "awaitCall"
  /\ calls' = [calls EXCEPT ![c].st = "threw", ![c].out = NewError(e.message),
                            ![c].rejected = e]
  /\ UNCHANGED <<config, lastQueryId, searched, lastTextQid, newestSearch, connected>>

\* `rejected` keeps what the promise of callTool rejected with.
CallToolRejects(c, e) ==
  /\ calls[c].st = "awaitCall"
  /\ calls' = [calls EXCEPT ![c].st = "threw", ![c].out = e, ![c].rejected = e]
  /\ UNCHANGED <<config, lastQueryId, searched, lastTextQid, newestSearch, connected>>

(***************************************************************************)
(* The caller takes the settled result of an invocation and moves on.      *)
(***************************************************************************)
Release(c) ==
  /\ Settled(c)
  /\ calls' = [calls EXCEPT ![c] = Idle]
  /\ UNCHANGED <<config, lastQueryId, searched, lastTextQid, newestSearch, connected>>

(***************************************************************************)
(* The specification: one caller that awaits each operation before it      *)
(* starts the next.                                                        *)
(***************************************************************************)
\* The caller may start an operation in slot c: nothing is pending, and c is the first slot.
SeqStart(c) == NonePending /\ \A d \in Slots : c <= d

Next ==
  \E c \in Slots :
    \/ SeqStart(c) /\ \E op \in TextOps, a \in TextArgs : TextSearchInvoke(c, op, a)
    \/ AwaitsCall(c) /\ \E r \in QueryResults : TextSearchResolve(c, r)
    \/ SeqStart(c) /\ \E o \in Outcomes : FeedbackInvoke(c, o)
    \/ AwaitsCall(c) /\ \E r \in FeedbackResults : FeedbackResolve(c, r)
    \/ SeqStart(c) /\ \E v \in VectorLists, d \in DocumentLists, o \in AddOptions :
                        AddVectorsInvoke(c, v, d, o)
    \/ AwaitsCall(c) /\ \E r \in UpsertResults : AddVectorsResolve(c, r)
    \/ SeqStart(c) /\ \E d \in DocumentLists, o \in AddOptions :
                        AddDocumentsInvoke(c, d, o)
    \/ \E v \in AllEmbedResults : AddDocumentsEmbedded(c, v)
    \/ \E e \in EmbedErrors : EmbedRejects(c, e)
    \/ SeqStart(c) /\ \E a \in VectorArgs : VectorSearchInvoke(c, a)
    \/ AwaitsCall(c) /\ \E r \in VectorResults : VectorSearchResolve(c, r)
    \/ SeqStart(c) /\ \E a \in ExploreArgs : ExploreInvoke(c, a)
    \/ AwaitsCall(c) /\ \E r \in ExploreResults : ExploreResolve(c, r)
    \/ SeqStart(c) /\ \E o \in RulesOptions : GetRulesInvoke(c, o)
    \/ AwaitsCall(c) /\ \E r \in RulesResults : GetRulesResolve(c, r)
    \/ \E e \in TransportErrors : CallToolRejects(c, e)
    \/ Release(c)

Spec == Init /\ [][Next]_vars


(***************************************************************************)
(* The concurrent specification: the caller starts text searches and       *)
(* feedback calls without awaiting the ones in flight.  The continuations  *)
(* run one at a time (one JavaScript thread), in the order in which the    *)
(* answers arrive, which is any order.                                     *)
(***************************************************************************)
\* The search the concurrent caller repeats.
ConcTextArgs ==
  {[query |-> Str("authentication"), k |-> Undefined, filter |-> Undefined]}

\* The responses to it: with one of two query ids, or with none.
ConcQueryResults ==
  [items : {Undefined}, query_id : {Undefined, Str("q-1"), Str("q-2")},
   rules : {Undefined}, error : {Undefined}]

ConcOutcomes == {Obj(("i-1" :> Str("accepted")))}

ConcFeedbackResults ==
  [status : {Str("recorded")}, query_id : {Str("q-1")}, outcome_count : {Num(1)},
   source : {Str("langchain")}]

ConcNext ==
  \E c \in Slots :
    \/ \E a \in ConcTextArgs : TextSearchInvoke(c, "similaritySearchWithScore", a)
    \/ \E r \in ConcQueryResults : TextSearchResolve(c, r)
    \/ \E o \in ConcOutcomes : FeedbackInvoke(c, o)
    \/ \E r \in ConcFeedbackResults : FeedbackResolve(c, r)
    \/ \E e \in TransportErrors : CallToolRejects(c, e)
    \/ Release(c)

ConcSpec == Init /\ [][ConcNext]_vars

(***************************************************************************)
(* The factory specification: a caller that builds stores with the static  *)
(* factories, one after the other.                                         *)
(***************************************************************************)
FactoryInit ==
  /\ config = NoStore
  /\ lastQueryId = Null
  /\ calls = [c \in Slots |-> Idle]
  /\ connected = FALSE
  /\ searched = FALSE
  /\ lastTextQid = NoResponse
  /\ newestSearch = [slot |-> 0, qid |-> NoResponse]

FactoryNext ==
  \E c \in Slots :
    \/ SeqStart(c) /\ \E t \in FactoryTexts, m \in FactoryMetadatas, cfg \in Configs :
                        FromTextsInvoke(c, t, m, cfg)
    \/ SeqStart(c) /\ \E d \in DocumentLists, cfg \in Configs :
                        FromDocumentsInvoke(c, d, cfg)
    \/ FactoryConnected(c)
    \/ \E e \in ConnectErrors : ConnectRejects(c, e)
    \/ \E v \in AllEmbedResults : AddDocumentsEmbedded(c, v)
    \/ \E e \in EmbedErrors : EmbedRejects(c, e)
    \/ AwaitsCall(c) /\ \E r \in UpsertResults : FactoryResolve(c, r)
    \/ \E e \in TransportErrors : CallToolRejects(c, e)
    \/ Release(c)

FactorySpec == FactoryInit /\ [][FactoryNext]_vars

(***************************************************************************)
(* The embeddings specification: a QortexEmbeddings wrapper around one of  *)
(* the models, whose two methods the caller invokes, also side by side.    *)
(***************************************************************************)
EmbedInit ==
  /\ config \in [model : Models]
  /\ lastQueryId = Null
  /\ calls = [c \in Slots |-> Idle]
  /\ connected = FALSE
  /\ searched = FALSE
  /\ lastTextQid = NoResponse
  /\ newestSearch = [slot |-> 0, qid |-> NoResponse]

EmbedNext ==
  \E c \in Slots :
    \/ \E t \in EmbedTextLists : EmbedDocumentsInvoke(c, t)
    \/ \E t \in EmbedText : EmbedQueryInvoke(c, t)
    \/ \E r \in AllModelOutputs : EmbedResolve(c, r)
    \/ \E e \in EmbedErrors : EmbedRejects(c, e)
    \/ Release(c)

EmbedSpec == EmbedInit /\ [][EmbedNext]_vars

(***************************************************************************)
(* connect() and disconnect() of the store, and the lifecycle              *)
(* specification: one caller that connects, uses every operation of the    *)
(* store and disconnects, in any order, awaiting each operation before it  *)
(* starts the next.                                                        *)
(***************************************************************************)
LifecycleOps == {"connect", "disconnect"}

\* connect() up to `await this.mcp.connect()`.
ConnectInvoke(c) ==
  /\ Free(c)
  /\ calls' = [calls EXCEPT ![c] = Connecting("connect", <<>>)]
  /\ UNCHANGED <<config, lastQueryId, searched, lastTextQid, newestSearch, connected>>

\* The connection is established: connect() returns nothing.
ConnectResolve(c) ==
  /\ calls[c].st = "awaitConnect"
  /\ calls[c].op = "connect"
  /\ connected' = TRUE
  /\ calls' = [calls EXCEPT ![c].st = "returned"]
  /\ UNCHANGED <<config, lastQueryId, searched, lastTextQid, newestSearch>>

\* disconnect() up to `await this.mcp.disconnect()`.
DisconnectInvoke(c) ==
  /\ Free(c)
  /\ calls' = [calls EXCEPT ![c] =
       [Connecting("disconnect", <<>>) EXCEPT !.st = "awaitDisconnect"]]
  /\ UNCHANGED <<config, lastQueryId, searched, lastTextQid, newestSearch, connected>>

\* The connection is closed: disconnect() returns nothing.
DisconnectResolve(c) ==
  /\ calls[c].st = "awaitDisconnect"
  /\ connected' = FALSE
  /\ calls' = [calls EXCEPT ![c].st = "returned"]
  /\ UNCHANGED <<config, lastQueryId, searched, lastTextQid, newestSearch>>

\* Closing the connection fails: disconnect() rejects with that error.
DisconnectRejects(c, e) ==
  /\ calls[c].st = "awaitDisconnect"
  /\ calls' = [calls EXCEPT ![c].st = "threw", ![c].out = e]
  /\ UNCHANGED <<config, lastQueryId, searched, lastTextQid, newestSearch, connected>>

\* The inputs and responses of the lifecycle caller: one-document insertions
\* and the responses without result lists.
LifeDocumentLists == {d \in DocumentLists : Len(d) = 1}

LifeVectorLists == {Arr(<<Vector(1, 0)>>)}

LifeUpsertResults == {r \in UpsertResults : r.ids = Undefined}

LifeVectorResults == {r \in VectorResults : r.results = Undefined}

LifecycleNext ==
  \E c \in Slots :
    \/ SeqStart(c) /\ ConnectInvoke(c)
    \/ ConnectResolve(c)
    \/ \E e \in ConnectErrors : ConnectRejects(c, e)
    \/ SeqStart(c) /\ DisconnectInvoke(c)
    \/ DisconnectResolve(c)
    \/ \E e \in ConnectErrors : DisconnectRejects(c, e)
    \/ SeqStart(c) /\ \E op \in TextOps, a \in ConcTextArgs : TextSearchInvoke(c, op, a)
    \/ AwaitsCall(c) /\ \E r \in ConcQueryResults : TextSearchResolve(c, r)
    \/ SeqStart(c) /\ \E o \in ConcOutcomes : FeedbackInvoke(c, o)
    \/ AwaitsCall(c) /\ \E r \in ConcFeedbackResults : FeedbackResolve(c, r)
    \/ SeqStart(c) /\ \E v \in LifeVectorLists, d \in LifeDocumentLists :
                        AddVectorsInvoke(c, v, d, Undefined)
    \/ AwaitsCall(c) /\ \E r \in LifeUpsertResults : AddVectorsResolve(c, r)
    \/ SeqStart(c) /\ \E d \in LifeDocumentLists : AddDocumentsInvoke(c, d, Undefined)
    \/ \E v \in AllEmbedResults : AddDocumentsEmbedded(c, v)
    \/ \E e \in EmbedErrors : EmbedRejects(c, e)
    \/ SeqStart(c) /\ \E a \in VectorArgs : VectorSearchInvoke(c, a)
    \/ AwaitsCall(c) /\ \E r \in LifeVectorResults : VectorSearchResolve(c, r)
    \/ SeqStart(c) /\ \E a \in ExploreArgs : ExploreInvoke(c, a)
    \/ AwaitsCall(c) /\ \E r \in ExploreResults : ExploreResolve(c, r)
    \/ SeqStart(c) /\ \E o \in RulesOptions : GetRulesInvoke(c, o)
    \/ AwaitsCall(c) /\ \E r \in RulesResults : GetRulesResolve(c, r)
    \/ \E e \in TransportErrors : CallToolRejects(c, e)
    \/ Release(c)

LifecycleSpec == Init /\ [][LifecycleNext]_vars

(***************************************************************************)
(* The fair specification: the lifecycle caller, with an embedding         *)
(* provider and a transport that eventually answer, or fail, every call    *)
(* made to them, and an event loop that then runs the continuation.        *)
(***************************************************************************)
\* The invocation in slot c has been started and its promise has not settled.
Pending(c) == ~Free(c) /\ ~Settled(c)

\* The call the invocation in slot c waits for is answered or fails.
Answers(c) ==
  \/ ConnectResolve(c)
  \/ \E e \in ConnectErrors : ConnectRejects(c, e)
  \/ DisconnectResolve(c)
  \/ \E e \in ConnectErrors : DisconnectRejects(c, e)
  \/ \E r \in ConcQueryResults : TextSearchResolve(c, r)
  \/ \E r \in ConcFeedbackResults : FeedbackResolve(c, r)
  \/ \E r \in LifeUpsertResults : AddVectorsResolve(c, r)
  \/ \E v \in AllEmbedResults : AddDocumentsEmbedded(c, v)
  \/ \E e \in EmbedErrors : EmbedRejects(c, e)
  \/ \E r \in LifeVectorResults : VectorSearchResolve(c, r)
  \/ \E r \in ExploreResults : ExploreResolve(c, r)
  \/ \E r \in RulesResults : GetRulesResolve(c, r)
  \/ \E e \in TransportErrors : CallToolRejects(c, e)

FairSpec ==
  /\ Init
  /\ [][LifecycleNext]_vars
  /\ \A c \in Slots : WF_vars(Answers(c))

(***************************************************************************)
(* The keeping specification: one caller that searches by text and sends   *)
(* feedback, awaits each call before it starts the next, and keeps the     *)
(* results of earlier calls while it goes on.                              *)
(***************************************************************************)
\* The caller may start an operation in slot c: the slot is free and no
\* invocation is pending.
KeepStart(c) == Free(c) /\ \A d \in Slots : ~Pending(d)

\* The responses to the search: with a query id, or with one of the ways of
\* having none.
KeepQueryResults ==
  [items : {Undefined}, query_id : {Undefined, Null, Str(""), Str("q-1")},
   rules : {Undefined}, error : {Undefined}]

KeepNext ==
  \E c \in Slots :
    \/ KeepStart(c) /\ \E a \in ConcTextArgs :
                         TextSearchInvoke(c, "similaritySearchWithScore", a)
    \/ \E r \in KeepQueryResults : TextSearchResolve(c, r)
    \/ KeepStart(c) /\ \E o \in ConcOutcomes : FeedbackInvoke(c, o)
    \/ \E r \in ConcFeedbackResults : FeedbackResolve(c, r)
    \/ \E e \in TransportErrors : CallToolRejects(c, e)
    \/ Release(c)

KeepSpec == Init /\ [][KeepNext]_vars

(***************************************************************************)
(* The echo specification: a caller that inserts documents with addVectors *)
(* and then searches by vector, against a service that stores the metadata *)
(* it is sent and returns it unchanged.  The index of the service holds    *)
(* the entries of the insertion whose result the caller still keeps.       *)
(***************************************************************************)
\* The documents the caller inserts: those of the other specifications, and
\* one whose metadata has a "score" key of its own.
EchoDocuments ==
  Documents \cup {Document(Str("API keys"), [score |-> Str("high")], Undefined)}

EchoDocumentLists == SeqUpTo(EchoDocuments, MaxDocs) \ {<<>>}

\* The search the caller repeats: unfiltered, for more entries than are stored.
EchoVectorArgs == {a \in VectorArgs : a.filter = Null}

\* The scores the service ranks an entry with.
EchoScores == {Num(95), Num(40)}

\* The identifiers the service gives the entries of an upsert: the ones it was
\* sent, when it was sent one for each entry, or ones of its own.
EchoIds(arguments) ==
  LET n == Len(arguments.metadata.v)
  IN  IF arguments.ids # Undefined /\ Len(arguments.ids.v) = n
        THEN arguments.ids
        ELSE Arr([i \in 1..n |-> Str(IdNames[i])])

\* The service's answer to the 'qortex_vector_upsert' with these arguments.
EchoUpsertResult(arguments) ==
  [ids |-> EchoIds(arguments), error |-> Undefined]

\* The service's answers to a 'qortex_vector_query' over the entries stored by
\* the upsert with these arguments: every entry, with the metadata it was
\* stored with and some score.
EchoQueryResults(arguments) ==
  LET n == Len(arguments.metadata.v)
  IN  { [results |-> Arr([i \in 1..n |->
                       [id       |-> EchoIds(arguments).v[i],
                        score    |-> scores[i],
                        metadata |-> arguments.metadata.v[i]]]),
         error   |-> Undefined] : scores \in [1..n -> EchoScores] }

\* The insertion in slot d has stored its entries, and the caller keeps its result.
Stored(d) == calls[d].op = "addVectors" /\ calls[d].st = "returned"

\* The caller may start an insertion in slot c: it keeps no earlier result, so
\* that the index holds the entries of one insertion at most and every search
\* result it keeps was answered from those.
InsertStart(c) == \A d \in Slots : Free(d)

\* The service stores the entries of the upsert of slot c and answers.
EchoUpserted(c) ==
  /\ calls[c].st = "awaitCall"
  /\ calls[c].op = "addVectors"
  /\ AddVectorsResolve(c, EchoUpsertResult(calls[c].sent[1].arguments))

\* The service answers the query of slot c with the entries of a stored
\* insertion, or with none when nothing is stored.
EchoQueried(c) ==
  /\ calls[c].st = "awaitCall"
  /\ calls[c].op = "similaritySearchVectorWithScore"
  /\ \/ \E d \in Slots :
          /\ Stored(d)
          /\ \E r \in EchoQueryResults(calls[d].sent[1].arguments) :
               VectorSearchResolve(c, r)
     \/ /\ \A d \in Slots : ~Stored(d)
        /\ VectorSearchResolve(c, [results |-> Arr(<<>>), error |-> Undefined])

EchoNext ==
  \E c \in Slots :
    \/ InsertStart(c) /\ \E d \in EchoDocumentLists : \E v \in EmbedResults(Texts(d)) :
                           AddVectorsInvoke(c, v, d, Undefined)
    \/ EchoUpserted(c)
    \/ KeepStart(c) /\ \E a \in EchoVectorArgs : VectorSearchInvoke(c, a)
    \/ EchoQueried(c)
    \/ \E e \in TransportErrors : CallToolRejects(c, e)
    \/ Release(c)

EchoSpec == Init /\ [][EchoNext]_vars

(***************************************************************************)
(* Properties.                                                             *)
(***************************************************************************)
\* The remote service has answered the call of the invocation in slot c.
Answered(c) == calls[c].resp # Undefined

\* A non-empty query identifier.
IsQueryId(x) == x.t = "string" /\ x.v # ""

\* The invocation in slot c issued exactly one remote call, named name.
IssuedOne(c, name) == Len(calls[c].sent) = 1 /\ calls[c].sent[1].name = name

\* C1: a feedback invoked on a store on which no text-level search had ever
\* been invoked has returned null and has issued no remote call, whatever the
\* outcomes mapping.
C1_FeedbackBeforeSearchIsNull ==
  \A c \in Slots :
    calls[c].op = "feedback" /\ ~calls[c].ghost.searched =>
      /\ calls[c].st = "returned"
      /\ calls[c].out = Null
      /\ Len(calls[c].sent) = 0

C1_Witness ==
  \E c \in Slots :
    /\ calls[c].op = "feedback"
    /\ ~calls[c].ghost.searched
    /\ calls[c].st = "returned"
    /\ DOMAIN calls[c].in.outcomes.v # {}

\* What C2 says of a feedback invocation in slot c: one 'qortex_feedback' call
\* carrying the prior search's query id, the outcomes unchanged and the configured
\* source, and the acknowledgment returned unmodified, never null.
FeedbackSubmitsPrior(c) ==
  /\ IssuedOne(c, "qortex_feedback")
  /\ calls[c].sent[1].arguments.query_id = calls[c].ghost.priorQid
  /\ calls[c].sent[1].arguments.outcomes = calls[c].in.outcomes
  /\ calls[c].sent[1].arguments.source = FeedbackSource
  /\ calls[c].st # "threw" \/ calls[c].out \in TransportErrors
  /\ calls[c].st = "returned" =>
       /\ Answered(c)
       /\ calls[c].out = calls[c].resp
       /\ calls[c].out # Null

\* C2 as stated: whenever a text-level search has completed before feedback is
\* called, feedback submits the prior search's query id and returns the
\* acknowledgment.
C2_Original ==
  \A c \in Slots :
    calls[c].op = "feedback" /\ calls[c].ghost.priorQid # NoResponse =>
      FeedbackSubmitsPrior(c)

\* C2 (amended): whenever the text-level search completed last before feedback is
\* called returned a non-empty query id, feedback issues exactly one
\* 'qortex_feedback' call with that query id, the outcomes unchanged and the
\* configured source, and returns the acknowledgment unmodified, never null.
C2_FeedbackSubmitsPriorQueryId ==
  \A c \in Slots :
    calls[c].op = "feedback" /\ IsQueryId(calls[c].ghost.priorQid) =>
      FeedbackSubmitsPrior(c)

C2_Witness ==
  \E c \in Slots :
    /\ calls[c].op = "feedback"
    /\ calls[c].ghost.priorQid = Str("q-2")
    /\ calls[c].st = "returned"
    /\ calls[c].out \in FeedbackResults
    /\ DOMAIN calls[c].in.outcomes.v # {}
    /\ config.feedbackSource = Str("app")

\* C3: with operations awaited one after the other, lastQueryId is null before
\* the first text-level search, and afterwards it is the query id of the response
\* to the text search completed last (null when that response carried none).
C3_LastQueryIdIsLatest ==
  /\ ~searched => lastQueryId = Null
  /\ lastTextQid = NoResponse => lastQueryId = Null
  /\ lastTextQid.t = "string" => lastQueryId = lastTextQid
  /\ lastTextQid \in {Undefined, Null} => lastQueryId = Null

C3_Witness ==
  \E c \in Slots :
    /\ calls[c].op \in TextOps
    /\ calls[c].st = "returned"
    /\ lastQueryId = Str("q-2")

\* C5: a text-level search whose response carries an error field fails with an
\* error whose message is the service's error text.
C5_TextSearchErrorThrows ==
  \A c \in Slots :
    calls[c].op \in TextOps /\ Answered(c) /\ calls[c].resp.error # Undefined =>
      /\ calls[c].st = "threw"
      /\ calls[c].out = NewError(calls[c].resp.error.v)


\* The name of the vector-level search.
VectorOp == "similaritySearchVectorWithScore"

\* What C4 says of the invocation in slot c: it failed with an error made by the
\* adapter whose message is the response's error text; nothing was returned.
FailedWithServiceError(c) ==
  /\ calls[c].st = "threw"
  /\ calls[c].out.origin = "adapter"
  /\ calls[c].out.message = calls[c].resp.error.v

\* C4 as stated: addVectors and similaritySearchVectorWithScore fail with the
\* service's error text whenever the response carries an error field.
C4_Original ==
  \A c \in Slots :
    /\ calls[c].op \in {"addVectors", VectorOp}
    /\ Answered(c)
    /\ calls[c].resp.error # Undefined
    => FailedWithServiceError(c)

\* C4 (amended): addVectors and similaritySearchVectorWithScore fail with an
\* error whose message is exactly the service's error text, and return nothing,
\* whenever the response carries a non-empty error text.
C4_ErrorResponseThrows ==
  \A c \in Slots :
    /\ calls[c].op \in {"addVectors", VectorOp}
    /\ Answered(c)
    /\ calls[c].resp.error.t = "string"
    /\ calls[c].resp.error.v # ""
    => FailedWithServiceError(c)

C4_Witness ==
  \E c \in Slots :
    /\ calls[c].op = "addVectors"
    /\ Answered(c)
    /\ calls[c].resp.error = Str("Index not found")
    /\ calls[c].resp.ids # Undefined
    /\ calls[c].st = "threw"

\* The explicit identifiers of an addVectors invocation (undefined when omitted).
GivenIds(c) == Get(Props(calls[c].in.options), "ids")

\* addVectors was called with N >= 1 vectors, N documents and N explicit identifiers.
ParallelWithIds(c) ==
  /\ calls[c].op = "addVectors"
  /\ GivenIds(c).t = "array"
  /\ Len(GivenIds(c).v) >= 1
  /\ Len(GivenIds(c).v) = Len(calls[c].in.documents)
  /\ Len(GivenIds(c).v) = Len(calls[c].in.vectors.v)

\* C6 as stated: addVectors with N vectors, N documents and N explicit ids that
\* completes without error returns exactly those ids, in the order supplied.
C6_Original ==
  \A c \in Slots :
    ParallelWithIds(c) /\ calls[c].st = "returned" => calls[c].out = GivenIds(c)

\* C6 (amended): addVectors with N vectors, N documents and N explicit ids sends
\* exactly those ids, in the order supplied, and when it completes without error
\* returns the identifier list of the service's response unmodified: the supplied
\* ids, in order, whenever the service echoes the list it was sent.
C6_ReturnsServiceIds ==
  \A c \in Slots :
    ParallelWithIds(c) =>
      /\ IssuedOne(c, "qortex_vector_upsert")
      /\ calls[c].sent[1].arguments.ids = GivenIds(c)
      /\ calls[c].st = "returned" =>
           /\ calls[c].out = calls[c].resp.ids
           /\ calls[c].resp.ids = calls[c].sent[1].arguments.ids =>
                calls[c].out = GivenIds(c)

C6_Witness ==
  \E c \in Slots :
    /\ ParallelWithIds(c)
    /\ calls[c].st = "returned"
    /\ GivenIds(c) = Arr(<<Str("v2"), Str("v1")>>)
    /\ calls[c].out = GivenIds(c)

\* The invocation in slot c is an insertion that has issued its remote call.
Upserting(c) == calls[c].op \in AddOps /\ Len(calls[c].sent) >= 1

\* The vectors an insertion sends: its argument, or for addDocuments the embeddings.
GivenVectors(c) ==
  IF calls[c].op = "addVectors" THEN calls[c].in.vectors ELSE calls[c].ghost.vectors

\* The index name the store was configured with.
ConfiguredIndexName ==
  IF config.indexName = Undefined THEN Str("default") ELSE config.indexName

\* The payload of slot c names the call and carries the index name, the vectors
\* unchanged and one metadata entry per document.
UpsertFrame(c) ==
  /\ IssuedOne(c, "qortex_vector_upsert")
  /\ calls[c].sent[1].arguments.index_name = ConfiguredIndexName
  /\ calls[c].sent[1].arguments.vectors = GivenVectors(c)
  /\ Len(calls[c].sent[1].arguments.metadata.v) = Len(calls[c].in.documents)

\* Entry i of the payload's metadata holds every key of document i's metadata
\* with its original value, and besides them only "text".
KeepsMetadata(c, i) ==
  LET entry == calls[c].sent[1].arguments.metadata.v[i].v
      md    == calls[c].in.documents[i].metadata
  IN  /\ DOMAIN entry = (DOMAIN md) \cup {"text"}
      /\ \A key \in DOMAIN md : entry[key] = md[key]

\* Entry i of the payload's metadata has the document's content under "text".
TextIsContent(c, i) ==
  calls[c].sent[1].arguments.metadata.v[i].v["text"]
    = calls[c].in.documents[i].pageContent

\* C7 as stated: one metadata entry per document, in document order, holding the
\* document's metadata unchanged plus "text" = the document's content; the index
\* name and the vectors are carried unchanged.
C7_Original ==
  \A c \in Slots :
    Upserting(c) =>
      /\ UpsertFrame(c)
      /\ \A i \in 1..Len(calls[c].in.documents) :
           KeepsMetadata(c, i) /\ TextIsContent(c, i)

\* C7 (amended): one metadata entry per document, in document order, holding
\* every key of the document's metadata with its original value plus a "text"
\* key whose value is the document's content unless the document's metadata has
\* a "text" key of its own, which is kept; the index name and the vectors are
\* carried unchanged.
C7_UpsertMetadataFoldsContent ==
  \A c \in Slots :
    Upserting(c) =>
      /\ UpsertFrame(c)
      /\ \A i \in 1..Len(calls[c].in.documents) :
           /\ KeepsMetadata(c, i)
           /\ "text" \notin DOMAIN calls[c].in.documents[i].metadata =>
                TextIsContent(c, i)

C7_Witness ==
  \E c \in Slots :
    /\ Upserting(c)
    /\ Len(calls[c].in.documents) = 2
    /\ calls[c].in.documents[1] # calls[c].in.documents[2]
    /\ \E i \in 1..2 : "text" \in DOMAIN calls[c].in.documents[i].metadata
    /\ \E i \in 1..2 : "source" \in DOMAIN calls[c].in.documents[i].metadata
    /\ config.indexName = Str("test-index")

\* The non-empty identifiers the documents of slot c carry themselves, in order.
OwnIds(c) ==
  SelectSeq([i \in 1..Len(calls[c].in.documents) |-> calls[c].in.documents[i].id],
            LAMBDA id : id.t = "string" /\ id.v # "")

\* C8 as stated: without explicit identifiers the payload carries no identifier
\* list at all, for every list of documents.
C8_Original ==
  \A c \in Slots :
    Upserting(c) /\ GivenIds(c) = Undefined =>
      calls[c].sent[1].arguments.ids = Undefined

\* C8 (amended): without explicit identifiers the payload carries no identifier
\* list when no document has a non-empty id of its own, and otherwise the list of
\* the documents' own non-empty ids in document order; no payload ever carries an
\* empty identifier list.
C8_OmittedIdsAreAbsentOrOwn ==
  \A c \in Slots :
    Upserting(c) =>
      /\ calls[c].sent[1].arguments.ids # Arr(<<>>)
      /\ GivenIds(c) = Undefined =>
           calls[c].sent[1].arguments.ids
             = IF Len(OwnIds(c)) = 0 THEN Undefined ELSE Arr(OwnIds(c))

C8_Witness ==
  \E c \in Slots :
    /\ Upserting(c)
    /\ calls[c].op = "addDocuments"
    /\ calls[c].in.options = Undefined
    /\ Len(calls[c].in.documents) = 2
    /\ Len(OwnIds(c)) = 0
    /\ calls[c].sent[1].arguments.ids = Undefined

\* The result items of the vector-query response of slot c.
ResultItems(c) ==
  IF calls[c].resp.results.t = "array" THEN calls[c].resp.results.v ELSE <<>>

\* Pair i of a vector search is built from result item i: same id, same score,
\* and the item's metadata without "text" and with the item's score under "score".
PairFromItem(c, i) ==
  LET item == ResultItems(c)[i]
      md   == Props(item.metadata)
      doc  == calls[c].out.v[i][1]
  IN  /\ doc.id = item.id
      /\ calls[c].out.v[i][2] = item.score
      /\ DOMAIN doc.metadata = ((DOMAIN md) \ {"text"}) \cup {"score"}
      /\ \A key \in (DOMAIN md) \ {"text", "score"} : doc.metadata[key] = md[key]
      /\ doc.metadata["score"] = item.score

\* The "text" field of result item i's metadata (undefined when there is none).
ItemText(c, i) == Get(Props(ResultItems(c)[i].metadata), "text")

\* C9 as stated: one pair per result item, in response order, and each document's
\* content equals the "text" field of the item's metadata.
C9_Original ==
  \A c \in Slots :
    calls[c].op = VectorOp /\ calls[c].st = "returned" =>
      /\ Len(calls[c].out.v) = Len(ResultItems(c))
      /\ \A i \in 1..Len(ResultItems(c)) :
           /\ PairFromItem(c, i)
           /\ calls[c].out.v[i][1].pageContent = ItemText(c, i)

\* C9 (amended): one pair per result item, in response order; the document id
\* and the paired score are the item's, the metadata is the item's without its
\* "text" key and with the item's score under "score", and the content is the
\* "text" field of the item's metadata, or the empty string when that field is
\* missing or null.
C9_VectorSearchReshapesItems ==
  \A c \in Slots :
    calls[c].op = VectorOp /\ calls[c].st = "returned" =>
      /\ Len(calls[c].out.v) = Len(ResultItems(c))
      /\ \A i \in 1..Len(ResultItems(c)) :
           /\ PairFromItem(c, i)
           /\ calls[c].out.v[i][1].pageContent
                = IF ItemText(c, i) \in {Undefined, Null} THEN Str("")
                  ELSE ItemText(c, i)

C9_Witness ==
  \E c \in Slots :
    /\ calls[c].op = VectorOp
    /\ calls[c].st = "returned"
    /\ Len(calls[c].out.v) = 2
    /\ calls[c].out.v[1][1].id = Str("v2")
    /\ calls[c].out.v[2][1].id = Str("v1")
    /\ calls[c].out.v[2][1].pageContent = Str("OAuth2 auth")
    /\ calls[c].out.v[2][1].metadata = [source |-> Str("docs"), score |-> Num(95)]

\* The items and the rules of the text-search response of slot c.
ResponseItems(c) ==
  IF calls[c].resp.items.t = "array" THEN calls[c].resp.items.v ELSE <<>>

ResponseRules(c) ==
  IF calls[c].resp.rules.t = "array" THEN calls[c].resp.rules.v ELSE <<>>

\* Rule r lists nodeId among its source concepts.
Lists(r, nodeId) ==
  /\ r.source_concepts.t = "array"
  /\ \E j \in 1..Len(r.source_concepts.v) : r.source_concepts.v[j] = nodeId

\* The rules of the response that list item i's node id, in response order, each
\* reduced to {id, text, relevance}.
RulesFor(c, i) ==
  LET listing == SelectSeq(ResponseRules(c),
                           LAMBDA r : Lists(r, ResponseItems(c)[i].node_id))
  IN  [j \in 1..Len(listing) |->
         Obj([id |-> listing[j].id, text |-> listing[j].text,
              relevance |-> listing[j].relevance])]

\* The document returned for item i of a text search.
TextDoc(c, i) ==
  IF calls[c].op = "similaritySearch" THEN calls[c].out.v[i]
  ELSE calls[c].out.v[i][1]

\* A text search in slot c has returned, one document per response item.
TextReturned(c) ==
  /\ calls[c].op \in TextOps
  /\ calls[c].st = "returned"
  /\ Len(calls[c].out.v) = Len(ResponseItems(c))

\* The document of item i carries exactly the rules listing its node id.
HasLinkedRules(c, i) ==
  /\ "rules" \in DOMAIN TextDoc(c, i).metadata
  /\ TextDoc(c, i).metadata["rules"] = Arr(RulesFor(c, i))

\* C10 as stated: a document has the rules listing its item's node id under
\* "rules", and no "rules" key when no rule lists it.
C10_Original ==
  \A c \in Slots :
    calls[c].op \in TextOps /\ calls[c].st = "returned" =>
      /\ TextReturned(c)
      /\ \A i \in 1..Len(ResponseItems(c)) :
           IF Len(RulesFor(c, i)) > 0 THEN HasLinkedRules(c, i)
           ELSE "rules" \notin DOMAIN TextDoc(c, i).metadata

\* C10 (amended): a document has the rules listing its item's node id under
\* "rules", in response order, each reduced to {id, text, relevance}; when no
\* rule lists it the adapter adds no "rules" key, so the document has one only if
\* the item's own metadata carries one, with the service's value.
C10_RulesAttachedByNodeId ==
  \A c \in Slots :
    calls[c].op \in TextOps /\ calls[c].st = "returned" =>
      /\ TextReturned(c)
      /\ \A i \in 1..Len(ResponseItems(c)) :
           LET md == Props(ResponseItems(c)[i].metadata)
           IN  IF Len(RulesFor(c, i)) > 0 THEN HasLinkedRules(c, i)
               ELSE IF "rules" \in DOMAIN md
                      THEN /\ "rules" \in DOMAIN TextDoc(c, i).metadata
                           /\ TextDoc(c, i).metadata["rules"] = md["rules"]
                      ELSE "rules" \notin DOMAIN TextDoc(c, i).metadata

C10_Witness ==
  \E c \in Slots :
    /\ TextReturned(c)
    /\ Len(ResponseItems(c)) = 2
    /\ Len(RulesFor(c, 1)) = 2
    /\ RulesFor(c, 1)[1].v.id = Str("rule:2")
    /\ HasLinkedRules(c, 1)
    /\ Len(RulesFor(c, 2)) = 0
    /\ "rules" \notin DOMAIN TextDoc(c, 2).metadata

\* The fields of a result item that a text search copies into the metadata.
ItemFields == {"score", "domain", "node_id"}

\* Pair i of a similaritySearchWithScore is built from response item i: the
\* item's content and id, and the item's score as the paired score.
TextPairFromItem(c, i) ==
  /\ calls[c].out.v[i][1].pageContent = ResponseItems(c)[i].content
  /\ calls[c].out.v[i][1].id = ResponseItems(c)[i].id
  /\ calls[c].out.v[i][2] = ResponseItems(c)[i].score

\* C11 as stated: one pair per response item, in response order, with the item's
\* content, id and score, and the item's node_id, domain and score in the
\* document's metadata.
C11_Original ==
  \A c \in Slots :
    calls[c].op = "similaritySearchWithScore" /\ calls[c].st = "returned" =>
      /\ Len(calls[c].out.v) = Len(ResponseItems(c))
      /\ \A i \in 1..Len(ResponseItems(c)) :
           /\ TextPairFromItem(c, i)
           /\ \A key \in ItemFields :
                calls[c].out.v[i][1].metadata[key] = ResponseItems(c)[i][key]

\* C11 (amended): similaritySearchWithScore returns one pair per item of the
\* 'qortex_query' response, in response order; the document's content and id are
\* the item's, the paired score is the item's score, and the document metadata's
\* node_id, domain and score are the item's node_id, domain and score unless the
\* item's own metadata has a key of that name, whose value is then kept.
C11_TextSearchReshapesItems ==
  \A c \in Slots :
    calls[c].op = "similaritySearchWithScore" /\ calls[c].st = "returned" =>
      /\ Len(calls[c].out.v) = Len(ResponseItems(c))
      /\ \A i \in 1..Len(ResponseItems(c)) :
           LET md == Props(ResponseItems(c)[i].metadata)
           IN  /\ TextPairFromItem(c, i)
               /\ \A key \in ItemFields :
                    calls[c].out.v[i][1].metadata[key]
                      = IF key \in DOMAIN md THEN md[key] ELSE ResponseItems(c)[i][key]

C11_Witness ==
  \E c \in Slots :
    /\ calls[c].op = "similaritySearchWithScore"
    /\ calls[c].st = "returned"
    /\ Len(calls[c].out.v) = 2
    /\ calls[c].out.v[1][1].id = Str("i-3")
    /\ calls[c].out.v[1][1].metadata["score"] = Num(1)
    /\ calls[c].out.v[2][1].id = Str("i-1")
    /\ calls[c].out.v[2][1].metadata["score"] = Num(94)
    /\ calls[c].out.v[2][1].metadata["node_id"] = Str("n1")

\* C12: explore(nodeId, depth) issues one 'qortex_explore' call for that node and
\* depth (1 when omitted); when the call is answered it returns null if the
\* response's node is null, and otherwise the response itself, with the node,
\* edges, neighbors and rules the service supplied.
C12_ExploreReturnsNeighborhood ==
  \A c \in Slots :
    calls[c].op = "explore" =>
      /\ IssuedOne(c, "qortex_explore")
      /\ calls[c].sent[1].arguments.node_id = calls[c].in.nodeId
      /\ calls[c].sent[1].arguments.depth
           = IF calls[c].in.depth = Undefined THEN Num(1) ELSE calls[c].in.depth
      /\ Answered(c) =>
           /\ calls[c].st = "returned"
           /\ calls[c].resp.node = Null => calls[c].out = Null
           /\ calls[c].resp.node.t = "object" =>
                /\ calls[c].out.node = calls[c].resp.node
                /\ calls[c].out.edges = calls[c].resp.edges
                /\ calls[c].out.neighbors = calls[c].resp.neighbors
                /\ calls[c].out.rules = calls[c].resp.rules

\* An explore of a missing node has returned null although the response carried
\* (empty) edge, neighbor and rule lists.
C12_Witness ==
  \E c \in Slots :
    /\ calls[c].op = "explore"
    /\ calls[c].in.nodeId = Str("nonexistent")
    /\ calls[c].st = "returned"
    /\ calls[c].resp.node = Null
    /\ calls[c].resp.edges = Arr(<<>>)
    /\ calls[c].out = Null

\* The contents of the documents of slot c, in document order.
Contents(c) ==
  Arr([i \in 1..Len(calls[c].in.documents) |-> calls[c].in.documents[i].pageContent])

\* What addVectors(vectors, documents, options) sends for the arguments of slot c.
AddVectorsCall(c) ==
  CallTool("qortex_vector_upsert",
           UpsertPayload(calls[c].ghost.vectors, calls[c].in.documents,
                         calls[c].in.options))

\* What addVectors makes of the response of slot c.
AddVectorsOutcome(c) ==
  IF Truthy(calls[c].resp.error)
    THEN [st |-> "threw", out |-> NewError(calls[c].resp.error.v)]
    ELSE [st |-> "returned", out |-> calls[c].resp.ids]

\* C13: addDocuments(documents, options) calls the embedding provider exactly
\* once, with the documents' contents in document order; it issues no remote call
\* before that call has returned, and then exactly one 'qortex_vector_upsert' call
\* with the returned vectors and the same documents and options, as addVectors
\* does; its result is what addVectors makes of the response.
C13_AddDocumentsEmbedsThenUpserts ==
  \A c \in Slots :
    calls[c].op = "addDocuments" =>
      /\ Len(calls[c].embeds) = 1
      /\ calls[c].embeds[1] = Contents(c)
      /\ calls[c].st = "awaitEmbed" => Len(calls[c].sent) = 0
      /\ Len(calls[c].sent) = 0 => ~Answered(c) /\ calls[c].st # "returned"
      /\ Len(calls[c].sent) > 0 =>
           /\ calls[c].ghost.vectors \in EmbedResults(Contents(c).v)
           /\ calls[c].sent = AddVectorsCall(c)
           /\ calls[c].sent[1].arguments.vectors = calls[c].ghost.vectors
      /\ Answered(c) =>
           /\ calls[c].st = AddVectorsOutcome(c).st
           /\ calls[c].out = AddVectorsOutcome(c).out

\* An addDocuments of two documents with explicit ids has returned the ids of the
\* response to its one upsert call.
C13_Witness ==
  \E c \in Slots :
    /\ calls[c].op = "addDocuments"
    /\ Len(calls[c].in.documents) = 2
    /\ calls[c].in.options = Obj([ids |-> Arr(<<Str("v2"), Str("v1")>>)])
    /\ calls[c].st = "returned"
    /\ calls[c].sent[1].arguments.ids = Arr(<<Str("v2"), Str("v1")>>)
    /\ Len(calls[c].sent[1].arguments.vectors.v) = 2
    /\ calls[c].out = Arr(<<Str("v2"), Str("v1")>>)

\* The public operations of the store that talk to the remote service.
PublicOps ==
  {"addVectors", "addDocuments", "similaritySearchVectorWithScore", "similaritySearch",
   "similaritySearchWithScore", "explore", "getRules", "feedback"}

\* The remote calls an invocation that completes successfully in slot c issues:
\* none for a feedback invoked without a stored query id, one otherwise.
CallsOnSuccess(c) ==
  IF calls[c].op = "feedback" /\ calls[c].ghost.lastQueryId \in {Null, Str("")}
    THEN 0 ELSE 1

\* C14: every invocation of a public operation has issued at most one remote
\* call at any moment, whether it is still waiting, has failed or has returned
\* (no retry, no fan-out); one that has returned has issued exactly one, except a
\* feedback invoked without a stored query id, which has issued none.
C14_OneRemoteCallPerInvocation ==
  \A c \in Slots :
    /\ calls[c].op \in PublicOps \cup {"none"}
    /\ Len(calls[c].sent) <= 1
    /\ Len(calls[c].embeds) <= 1
    /\ calls[c].st = "returned" => Len(calls[c].sent) = CallsOnSuccess(c)
    /\ Answered(c) => Len(calls[c].sent) = 1

\* An invocation has failed after its one remote call was issued, and no second
\* call was made.
C14_Witness ==
  \E c \in Slots :
    /\ calls[c].op = "getRules"
    /\ calls[c].st = "threw"
    /\ Len(calls[c].sent) = 1

\* The options object getRules works on ({} when the argument is omitted).
GivenOptions(c) ==
  IF calls[c].in.options = Undefined THEN <<>> ELSE calls[c].in.options.v

\* Field to of the 'qortex_rules' payload of slot c is option from when that was
\* supplied, and otherwise absent.
Carries(c, to, from) ==
  calls[c].sent[1].arguments[to]
    = IF from \in DOMAIN GivenOptions(c) THEN GivenOptions(c)[from] ELSE Undefined

\* Field to of the 'qortex_rules' payload of slot c is option from when that was
\* supplied, and otherwise the default value.
CarriesOr(c, to, from, default) ==
  calls[c].sent[1].arguments[to]
    = IF from \in DOMAIN GivenOptions(c) THEN GivenOptions(c)[from] ELSE default

\* C20: getRules(options) issues one 'qortex_rules' call carrying the supplied
\* domains, concept ids and categories (absent when not supplied),
\* include_derived (true when not supplied) and min_confidence (0 when not
\* supplied), and returns the service's response verbatim.
C20_GetRulesPassesThrough ==
  \A c \in Slots :
    calls[c].op = "getRules" =>
      /\ IssuedOne(c, "qortex_rules")
      /\ Carries(c, "domains", "domains")
      /\ Carries(c, "concept_ids", "conceptIds")
      /\ Carries(c, "categories", "categories")
      /\ CarriesOr(c, "include_derived", "includeDerived", Bool(TRUE))
      /\ CarriesOr(c, "min_confidence", "minConfidence", Num(0))
      /\ Answered(c) => calls[c].st = "returned" /\ calls[c].out = calls[c].resp

\* A getRules with every option supplied (derived rules excluded) has returned
\* the two rules of the response.
C20_Witness ==
  \E c \in Slots :
    /\ calls[c].op = "getRules"
    /\ calls[c].st = "returned"
    /\ Get(GivenOptions(c), "includeDerived") = Bool(FALSE)
    /\ calls[c].sent[1].arguments.include_derived = Bool(FALSE)
    /\ calls[c].sent[1].arguments.concept_ids = Arr(<<Str("sec:oauth")>>)
    /\ Len(calls[c].out.rules.v) = 2

\* The remote call similaritySearchWithScore issues for the arguments of slot c.
WithScoreCall(c) ==
  CallTool("qortex_query",
           QueryPayload(calls[c].in.query, calls[c].in.k, calls[c].in.filter))

\* The pairs similaritySearchWithScore returns for the response of slot c.
WithScorePairs(c) == ScoredDocs(calls[c].resp)

\* C15: similaritySearch(query, k, filter) issues the one remote call that
\* similaritySearchWithScore(query, k, filter) issues, leaves lastQueryId as that
\* method does (the response's query id, or null), and returns exactly the
\* documents of that method's pairs, in the same order, without the scores.
C15_SimilaritySearchDropsScores ==
  \A c \in Slots :
    calls[c].op = "similaritySearch" =>
      /\ calls[c].sent = WithScoreCall(c)
      /\ Answered(c) =>
           /\ calls[c].st = "returned"
           /\ lastQueryId = NewLastQueryId(calls[c].resp)
           /\ calls[c].out.t = "array"
           /\ Len(calls[c].out.v) = Len(WithScorePairs(c))
           /\ \A i \in 1..Len(WithScorePairs(c)) :
                calls[c].out.v[i] = WithScorePairs(c)[i][1]

\* A similaritySearch with k and filter omitted has returned the two documents
\* of its response, in response order, and has stored the response's query id.
C15_Witness ==
  \E c \in Slots :
    /\ calls[c].op = "similaritySearch"
    /\ calls[c].in.k = Undefined
    /\ calls[c].st = "returned"
    /\ Len(calls[c].out.v) = 2
    /\ calls[c].out.v[1].id = Str("i-2")
    /\ calls[c].out.v[2].id = Str("i-1")
    /\ calls[c].out.v[1].pageContent = Str("JWT validation")
    /\ lastQueryId = Str("q-1")

\* The default domain the store was configured with.
ConfiguredDomain ==
  IF config.domain = Undefined THEN Str("default") ELSE config.domain

\* Field key of the filter a text search in slot c was given (undefined when the
\* filter is omitted or has no such field).
FilterField(c, key) ==
  IF calls[c].in.filter.t = "object" /\ key \in DOMAIN calls[c].in.filter.v
    THEN calls[c].in.filter.v[key] ELSE Undefined

\* C16: the 'qortex_query' payload of a text-level search carries the raw query
\* text, top_k = k (4 when k is omitted), the filter's domain list when the filter
\* supplies one and otherwise the one-element list of the default domain, and the
\* filter's min_confidence when it is a number and otherwise 0.
C16_TextSearchPayload ==
  \A c \in Slots :
    calls[c].op \in TextOps =>
      /\ IssuedOne(c, "qortex_query")
      /\ calls[c].sent[1].arguments.context = calls[c].in.query
      /\ calls[c].sent[1].arguments.top_k
           = IF calls[c].in.k = Undefined THEN Num(4) ELSE calls[c].in.k
      /\ calls[c].sent[1].arguments.domains
           = IF FilterField(c, "domains").t = "array" THEN FilterField(c, "domains")
             ELSE Arr(<<ConfiguredDomain>>)
      /\ calls[c].sent[1].arguments.min_confidence
           = IF FilterField(c, "min_confidence").t = "number"
               THEN FilterField(c, "min_confidence") ELSE Num(0)

\* A search with k omitted and a filter that supplies two domains and a minimum
\* confidence, on a store configured with another default domain.
C16_Witness ==
  \E c \in Slots :
    /\ calls[c].op = "similaritySearchWithScore"
    /\ config.domain = Str("security")
    /\ calls[c].in.k = Undefined
    /\ calls[c].sent[1].arguments.top_k = Num(4)
    /\ calls[c].sent[1].arguments.domains = Arr(<<Str("infra"), Str("security")>>)
    /\ calls[c].sent[1].arguments.min_confidence = Num(50)
    /\ calls[c].sent[1].arguments.context = Str("tokens")

\* C17: with operations invoked concurrently, lastQueryId is unguarded shared
\* state: at every moment it holds the query id of the search response that was
\* processed last (null when that response carried none), whichever search was
\* invoked last, and a feedback call is tagged with the value lastQueryId held
\* when feedback was invoked.  In some interleaving of two searches in flight
\* together and a feedback call (C17_Witness) the tag is therefore not the query
\* id of the search the caller invoked last.
C17_LastWriterWins ==
  /\ lastTextQid = NoResponse => lastQueryId = Null
  /\ lastTextQid \in {Undefined, Null} => lastQueryId = Null
  /\ lastTextQid.t = "string" => lastQueryId = lastTextQid
  /\ \A c \in Slots :
       calls[c].op = "feedback" /\ Len(calls[c].sent) > 0 =>
         /\ calls[c].sent[1].arguments.query_id = calls[c].ghost.lastQueryId
         /\ calls[c].sent[1].arguments.query_id = calls[c].ghost.priorQid

\* A 'qortex_feedback' call tagged q-1 was issued when the search the caller had
\* invoked last had already been answered with the query id q-2: the response
\* of the search invoked before it was processed after that answer.
C17_Witness ==
  \E c \in Slots :
    /\ calls[c].op = "feedback"
    /\ Len(calls[c].sent) = 1
    /\ calls[c].sent[1].arguments.query_id = Str("q-1")
    /\ calls[c].ghost.newest.qid = Str("q-2")
    /\ newestSearch.qid = Str("q-2")
    /\ calls[newestSearch.slot].op \in TextOps
    /\ calls[newestSearch.slot].resp.query_id = Str("q-2")

\* The metadata fromTexts gives document i: metadatas[i] when metadatas is a
\* list (none beyond the end of the list), and the shared object otherwise.
MetadataFor(c, i) ==
  IF calls[c].in.metadatas.t = "array"
    THEN IF i <= Len(calls[c].in.metadatas.v) THEN calls[c].in.metadatas.v[i].v ELSE <<>>
    ELSE calls[c].in.metadatas.v

\* The documents the factory in slot c was asked to insert: for fromTexts
\* document i is texts[i] with its metadata, for fromDocuments the documents given.
AskedDocuments(c) ==
  IF calls[c].op = "fromTexts"
    THEN [i \in 1..Len(calls[c].in.texts) |->
            Document(calls[c].in.texts[i], MetadataFor(c, i), Undefined)]
    ELSE calls[c].in.docs

\* C18: fromTexts and fromDocuments construct a store with the given
\* configuration and first establish the connection: while the connection is
\* awaited nothing has been embedded or sent.  Only then do they insert, through
\* addDocuments (one embedding call on the contents, one 'qortex_vector_upsert'
\* call, no options), the documents they were asked to insert; fromTexts builds
\* document i from texts[i] with metadatas[i] when metadatas is a list and with
\* the shared object otherwise.  They return the store only once the insertion
\* has been answered without error.
C18_FactoriesConnectThenInsert ==
  \A c \in Slots :
    calls[c].op \in FactoryOps =>
      /\ config = calls[c].in.config
      /\ calls[c].st = "awaitConnect" =>
           ~connected /\ Len(calls[c].embeds) = 0 /\ Len(calls[c].sent) = 0
      /\ Len(calls[c].embeds) > 0 =>
           /\ connected
           /\ calls[c].embeds = <<Arr(Texts(AskedDocuments(c)))>>
      /\ Len(calls[c].sent) > 0 =>
           /\ Len(calls[c].embeds) = 1
           /\ calls[c].sent =
                CallTool("qortex_vector_upsert",
                         UpsertPayload(calls[c].ghost.vectors, AskedDocuments(c), Undefined))
      /\ calls[c].st = "returned" =>
           /\ Answered(c)
           /\ ~Truthy(calls[c].resp.error)
           /\ Len(calls[c].sent) = 1
           /\ calls[c].out = [t |-> "store", config |-> calls[c].in.config]

\* fromTexts with two texts and a list of two metadata objects has returned the
\* store, after one upsert whose metadata entries pair each text with its own
\* metadata.
C18_Witness ==
  \E c \in Slots :
    /\ calls[c].op = "fromTexts"
    /\ calls[c].st = "returned"
    /\ connected
    /\ calls[c].in.texts = <<Str("Hello world"), Str("Goodbye world")>>
    /\ calls[c].in.metadatas.t = "array"
    /\ calls[c].sent[1].arguments.metadata
         = Arr(<<Obj([text |-> Str("Hello world"), src |-> Str("a")]),
                 Obj([text |-> Str("Goodbye world"), src |-> Str("b"), page |-> Num(2)])>>)
    /\ calls[c].out.config.indexName = Str("test-index")

\* The first element of an array value (undefined when it is empty).
First(array) == IF Len(array.v) > 0 THEN array.v[1] ELSE Undefined

\* A model whose answer is determined by the texts it is given.
Deterministic(model) ==
  \A t \in EmbedTextLists : Cardinality(ModelOutputs(model, t)) = 1

\* embedQuery in slot c and embedDocuments in slot d have both returned, and d
\* was given the one-element list of c's text.
SameText(c, d) ==
  /\ calls[c].op = "embedQuery"
  /\ calls[d].op = "embedDocuments"
  /\ calls[c].st = "returned"
  /\ calls[d].st = "returned"
  /\ calls[d].in.texts = <<calls[c].in.text>>

\* C19: embedDocuments(texts) calls the model's embed once, with texts, and
\* returns its result unchanged; embedQuery(text) calls embed once, with the
\* one-element list [text], and returns the first vector of the result; so for a
\* deterministic model embedQuery(t) equals embedDocuments([t])[0].
C19_EmbeddingsWrapModel ==
  /\ \A c \in Slots :
       /\ calls[c].op = "embedDocuments" =>
            /\ calls[c].embeds = <<Arr(calls[c].in.texts)>>
            /\ calls[c].st = "returned" =>
                 /\ calls[c].out = calls[c].resp
                 /\ calls[c].resp \in ModelOutputs(config.model, calls[c].in.texts)
       /\ calls[c].op = "embedQuery" =>
            /\ calls[c].embeds = <<Arr(<<calls[c].in.text>>)>>
            /\ calls[c].st = "returned" =>
                 /\ calls[c].out = First(calls[c].resp)
                 /\ calls[c].resp \in ModelOutputs(config.model, <<calls[c].in.text>>)
  /\ \A c, d \in Slots :
       SameText(c, d) /\ Deterministic(config.model) =>
         calls[c].out = First(calls[d].out)

\* embedQuery("beta") and embedDocuments(["beta"]) have both returned over the
\* model that computes a vector from the text, with the same vector.
C19_Witness ==
  \E c, d \in Slots :
    /\ SameText(c, d)
    /\ config.model = "byText"
    /\ calls[c].in.text = Str("beta")
    /\ calls[c].out = Vector(2, 0)
    /\ calls[d].out = Arr(<<Vector(2, 0)>>)


(***************************************************************************)
(* C21: when the transport fails the remote call of a store operation with *)
(* an error E, the operation rejects, and what it rejects with is E        *)
(* itself: not another error built from it, not null, not an empty result. *)
(***************************************************************************)
C21_TransportErrorPropagates ==
  \A c \in Slots :
    calls[c].rejected # Undefined =>
      /\ calls[c].op \in PublicOps
      /\ calls[c].st = "threw"
      /\ calls[c].out = calls[c].rejected
      /\ calls[c].out \in TransportErrors

\* An addDocuments whose upsert the transport failed has rejected with that error.
C21_Witness ==
  \E c \in Slots :
    /\ calls[c].op = "addDocuments"
    /\ calls[c].rejected \in TransportErrors
    /\ calls[c].st = "threw"
    /\ calls[c].out = calls[c].rejected


\* The operations of the store other than the two text-level searches.
NonTextOps == (PublicOps \ TextOps) \cup LifecycleOps

\* The invocation in slot c takes a step: it is invoked, continues, settles or
\* is handed to the caller.
Steps(c) == calls'[c] # calls[c]

\* The query identifier carried by the 'qortex_feedback' payload of slot c.
FeedbackTag(c) == calls[c].sent[1].arguments.query_id.v

\* One step of the store, as C22 has it.
C22_Step ==
  /\ lastQueryId' # lastQueryId =>
       \E c \in Slots : /\ calls[c].op \in TextOps
                        /\ calls[c].st = "awaitCall"
                        /\ calls'[c].st = "returned"
  /\ \A c \in Slots :
       Steps(c) /\ (calls[c].op \in NonTextOps \/ calls'[c].op \in NonTextOps) =>
         lastQueryId' = lastQueryId
  /\ \A c \in Slots :
       calls'[c].op = "feedback" /\ calls'[c].sent # <<>> =>
         calls'[c].sent[1].arguments.query_id = lastQueryId'

(***************************************************************************)
(* C22: the stored query identifier is written by the text-level searches  *)
(* only.  No step of addVectors, addDocuments, the vector-level search,    *)
(* explore, getRules, feedback, connect or disconnect changes it, whether  *)
(* the operation returns or throws; a feedback that has issued its payload *)
(* leaves the identifier it was tagged with in place, so that the feedback *)
(* calls that follow it are tagged with the same identifier.               *)
(***************************************************************************)
C22_OnlyTextSearchWrites == [][C22_Step]_vars

\* A feedback has returned the acknowledgment of the service and the stored
\* identifier is still the one it was tagged with.
C22_Witness ==
  \E c \in Slots :
    /\ calls[c].op = "feedback"
    /\ calls[c].st = "returned"
    /\ Answered(c)
    /\ FeedbackTag(c) = "q-1"
    /\ lastQueryId = Str("q-1")
    /\ connected


\* What the pending invocation of a public operation in slot c waits for: the
\* answer to its one embedding call, before any remote call is made, or the
\* answer to its one remote call.
WaitsOnItsCall(c) ==
  \/ /\ calls[c].st = "awaitEmbed"
     /\ calls[c].op = "addDocuments"
     /\ Len(calls[c].embeds) = 1
     /\ calls[c].sent = <<>>
  \/ /\ calls[c].st = "awaitCall"
     /\ Len(calls[c].sent) = 1
     /\ Len(calls[c].embeds) = (IF calls[c].op = "addDocuments" THEN 1 ELSE 0)

(***************************************************************************)
(* C23: with an embedding provider and a transport that eventually answer  *)
(* or fail every call, every invocation of a public operation of the store *)
(* eventually returns or throws; and while it is pending it waits for      *)
(* nothing but the answer to its one embedding call or to its one remote   *)
(* call.                                                                   *)
(***************************************************************************)
C23_EveryInvocationCompletes ==
  /\ [](\A c \in Slots : Pending(c) /\ calls[c].op \in PublicOps => WaitsOnItsCall(c))
  /\ \A c \in Slots : (Pending(c) /\ calls[c].op \in PublicOps) ~> Settled(c)

\* An addDocuments has completed after both of its waits: the embeddings
\* arrived, the upsert was issued and answered, and the call returned.
C23_Witness ==
  \E c \in Slots :
    /\ calls[c].op = "addDocuments"
    /\ calls[c].st = "returned"
    /\ Len(calls[c].embeds) = 1
    /\ Len(calls[c].sent) = 1
    /\ Answered(c)


\* The text search invoked last got no response: the transport failed its call.
NewestSearchFailed == newestSearch.slot # 0 /\ newestSearch.qid = NoResponse

\* One step of the store, as C24 has it.
C24_Step ==
  /\ \A c \in Slots :
       /\ calls[c].op \in TextOps
       /\ calls[c].st = "awaitCall"
       /\ calls'[c].st = "threw"
       => /\ calls'[c].out \in TransportErrors
          /\ lastQueryId' = lastQueryId
  /\ \A c \in Slots :
       /\ Free(c)
       /\ calls'[c].op = "feedback"
       /\ NewestSearchFailed
       /\ IsQueryId(lastTextQid)
       => /\ calls'[c].st = "awaitCall"
          /\ IssuedOne(c, "qortex_feedback")'
          /\ calls'[c].sent[1].arguments.query_id = lastTextQid

(***************************************************************************)
(* C24: a text-level search whose remote call the transport fails leaves   *)
(* the stored query identifier as it was, and a feedback invoked after     *)
(* such a search is tagged with the query identifier of the last text      *)
(* search that the service answered.                                       *)
(***************************************************************************)
C24_FailedSearchKeepsQueryId == [][C24_Step]_vars

\* A feedback invoked after a failed search waits for the answer to a payload
\* tagged with the identifier of the search answered before that one.
C24_Witness ==
  \E c \in Slots :
    /\ calls[c].op = "feedback"
    /\ calls[c].st = "awaitCall"
    /\ calls[c].ghost.newest.slot # 0
    /\ calls[c].ghost.newest.qid = NoResponse
    /\ calls[c].ghost.priorQid = Str("q-1")
    /\ FeedbackTag(c) = "q-1"


\* The ways a response has of carrying no query identifier: the field is
\* missing or null.
NoQueryId == {Undefined, Null}

\* One step of the store, as C25 has it.
C25_Step ==
  /\ \A c \in Slots :
       /\ calls[c].op \in TextOps
       /\ calls[c].st = "awaitCall"
       /\ calls'[c].st = "returned"
       => /\ calls'[c].resp.query_id \in NoQueryId => lastQueryId' = Null
          /\ calls'[c].resp.query_id = Str("") => lastQueryId' = Str("")
  /\ \A c \in Slots :
       /\ Free(c)
       /\ calls'[c].op = "feedback"
       /\ newestSearch.qid \in NoQueryId \cup {Str("")}
       => /\ calls'[c].st = "returned"
          /\ calls'[c].out = Null
          /\ calls'[c].sent = <<>>

(***************************************************************************)
(* C25: a text-level search answered without a query identifier (the field *)
(* missing or null) sets the stored identifier to null, whatever an        *)
(* earlier search had stored, and one answered with the empty string       *)
(* stores the empty string; the feedback invoked next returns null and     *)
(* issues no remote call.                                                  *)
(***************************************************************************)
C25_NoQueryIdResets == [][C25_Step]_vars

\* The caller holds the acknowledgment of a feedback tagged q-1, so a search
\* had stored q-1; a later search was answered without a query identifier, the
\* stored identifier is null, and the feedback invoked after it returned null
\* without a remote call.
C25_Witness ==
  \E c, d \in Slots :
    /\ calls[d].op = "feedback"
    /\ calls[d].sent # <<>>
    /\ FeedbackTag(d) = "q-1"
    /\ calls[c].op = "feedback"
    /\ calls[c].ghost.newest.qid \in NoQueryId
    /\ calls[c].st = "returned"
    /\ calls[c].out = Null
    /\ calls[c].sent = <<>>
    /\ lastQueryId = Null


\* One step of the store, as C26 has it.
C26_Step ==
  /\ \A c \in Slots :
       calls'[c].op = "feedback" /\ calls'[c].sent # <<>> =>
         /\ IssuedOne(c, "qortex_feedback")'
         /\ calls'[c].sent[1].arguments.query_id = calls'[c].ghost.lastQueryId
  /\ \A c \in Slots :
       calls[c].op = "feedback" /\ calls'[c].op = "feedback" =>
         calls'[c].sent = calls[c].sent

(***************************************************************************)
(* C26: the query identifier of a feedback payload is the identifier the   *)
(* store held when feedback was invoked.  Once issued the payload is never *)
(* changed: a text-level search that completes while the feedback call is  *)
(* in flight changes the stored identifier and leaves the payload's        *)
(* query_id as it was.                                                     *)
(***************************************************************************)
C26_FeedbackTagFixedAtInvocation == [][C26_Step]_vars

\* A feedback tagged q-1 is in flight, and a search that completed meanwhile
\* has stored q-2.
C26_Witness ==
  \E c \in Slots :
    /\ calls[c].op = "feedback"
    /\ calls[c].st = "awaitCall"
    /\ calls[c].ghost.lastQueryId = Str("q-1")
    /\ FeedbackTag(c) = "q-1"
    /\ lastQueryId = Str("q-2")


\* The identifier list of the 'qortex_vector_upsert' payload of slot c.
SentIds(c) == calls[c].sent[1].arguments.ids

\* C27: whenever the 'qortex_vector_upsert' payload of an insertion of as many
\* vectors as documents, invoked without options.ids, carries an identifier
\* list, taken from the documents' own id fields, the list has exactly one
\* identifier per document: as many as there are documents and metadata
\* entries.
C27_OneIdPerDocument ==
  \A c \in Slots :
    /\ calls[c].op \in AddOps
    /\ calls[c].sent # <<>>
    /\ Len(calls[c].sent[1].arguments.vectors.v) = Len(calls[c].in.documents)
    /\ Get(Props(calls[c].in.options), "ids") \in {Undefined, Null}
    /\ SentIds(c) # Undefined
    => /\ Len(SentIds(c).v) = Len(calls[c].in.documents)
       /\ Len(SentIds(c).v) = Len(calls[c].sent[1].arguments.metadata.v)


\* The search of slot c was answered from the entries that the insertion of
\* slot d stored.
RoundTrip(c, d) ==
  /\ Stored(d)
  /\ calls[c].op = VectorOp
  /\ calls[c].st = "returned"
  /\ calls[c].resp \in EchoQueryResults(calls[d].sent[1].arguments)

\* Document i of the insertion of slot d, the document the search of slot c
\* returned for it, and the score the service gave it.
Inserted(d, i) == calls[d].in.documents[i]

Returned(c, i) == calls[c].out.v[i][1]

ScoreOf(c, i) == calls[c].resp.results.v[i].score

\* C28 as stated: every document comes back with its content, and with its
\* metadata plus a "score" key and no "text" key that it did not have.
C28_Original ==
  \A c, d \in Slots :
    RoundTrip(c, d) =>
      /\ Len(calls[c].out.v) = Len(calls[d].in.documents)
      /\ \A i \in 1..Len(calls[d].in.documents) :
           /\ Returned(c, i).pageContent = Inserted(d, i).pageContent
           /\ Returned(c, i).metadata
                = Spread(Inserted(d, i).metadata, [score |-> ScoreOf(c, i)])
           /\ "text" \in DOMAIN Returned(c, i).metadata
                => "text" \in DOMAIN Inserted(d, i).metadata

(***************************************************************************)
(* C28 (amended): through a service that stores and returns metadata       *)
(* unchanged, every document inserted with addVectors comes back from the  *)
(* vector-level search with the metadata it was inserted with, less a      *)
(* "text" key and with the result's score under "score" (in place of a     *)
(* "score" of its own).  Its content comes back when its metadata had no   *)
(* "text" key; otherwise the value of that key comes back as the content   *)
(* (the empty string when it was null).                                    *)
(***************************************************************************)
C28_RoundTrip ==
  \A c, d \in Slots :
    RoundTrip(c, d) =>
      /\ Len(calls[c].out.v) = Len(calls[d].in.documents)
      /\ \A i \in 1..Len(calls[d].in.documents) :
           LET md == Inserted(d, i).metadata
           IN  /\ Returned(c, i).pageContent
                    = IF "text" \in DOMAIN md THEN Coalesce(md["text"], Str(""))
                      ELSE Inserted(d, i).pageContent
               /\ Returned(c, i).metadata = Spread(Rest(md, "text"),
                                                   [score |-> ScoreOf(c, i)])
               /\ calls[c].out.v[i][2] = ScoreOf(c, i)

\* Two documents have made the round trip: one without a "text" key in its
\* metadata, which came back with its content and its metadata plus the score,
\* and one with a "score" of its own, which the result's score replaced.
C28_Witness ==
  \E c, d \in Slots :
    /\ RoundTrip(c, d)
    /\ Len(calls[c].out.v) = 2
    /\ Inserted(d, 1) = Document(Str("OAuth2 auth"), [source |-> Str("docs")], Undefined)
    /\ Returned(c, 1).pageContent = Str("OAuth2 auth")
    /\ Returned(c, 1).metadata = [source |-> Str("docs"), score |-> Num(95)]
    /\ Inserted(d, 2).metadata = [score |-> Str("high")]
    /\ Returned(c, 2).pageContent = Str("API keys")
    /\ Returned(c, 2).metadata = [score |-> Num(40)]

=============================================================================
